---- MODULE Spec2Model ----
(***************************************************************************)
(* A model of the molly xtc reader: the atom and frame selectors           *)
(* (src/src/selection.rs), the byte-fetch buffers (src/src/buffer.rs), the *)
(* compressed-position decoder (src/src/reader.rs) and the frame-selection *)
(* drivers (src/src/main.rs, src/bindings/python/src/lib.rs).              *)
(*                                                                         *)
(* Six specifications share the module, one per component:                 *)
(*   SpecSel  the selectors, queried as pure functions                     *)
(*   SpecBuf  Buffer and UnBuffered run side by side over one file         *)
(*   SpecDec  read_compressed_positions, one main-loop iteration per step  *)
(*   SpecDrv  read_frames / filter_frames / read_into_array                *)
(*   SpecRd   XTCReader::read_frame over a whole file (src/src/lib.rs)     *)
(*   SpecBits decodebits and decodeints on a bit stream, at the widths of  *)
(*            the source's u32 and u64                                     *)
(* The variables of the components a specification does not exercise keep  *)
(* their idle values.                                                      *)
(***************************************************************************)
EXTENDS Integers, Sequences, FiniteSets, TLC

VARIABLES
    \* ---- selectors (SpecSel)
    skind,        \* "atom" | "frame": which selector is being queried
    asel,         \* the AtomSelection value
    fsel,         \* the FrameSelection value
    ilist,        \* the index list handed to from_index_list (atom side)
    built,        \* TRUE once asel was built by from_index_list(ilist)
    qlog,         \* the is_included calls made so far: a set of [idx, res]
    \* ---- the file and the byte-fetch buffers (SpecBuf)
    fcount,       \* the u32 length prefix of the opaque payload
    fdata,        \* the bytes that follow the length prefix in the file
    scratch0,     \* what the caller's scratch Vec held before new()
    bscratch,     \* Buffer::scratch
    bidx,         \* Buffer::idx
    bhead,        \* Buffer::head
    bpos,         \* position of Buffer's reader, from the length prefix
    bpc,          \* "init" | "new_read" | "ready" | "fetch_read" | "finished"
    btarget,      \* the index read_to_include was called with
    bret,         \* the byte Buffer's last fetch returned (-1: none yet)
    uscratch,     \* UnBuffered::scratch
    uhead,        \* UnBuffered::head
    upos,         \* position of UnBuffered's reader, from the length prefix
    upc,          \* "init" | "ready" | "error" | "finished"
    uret,         \* the byte UnBuffered's last fetch returned (-1: none yet)
    \* ---- the frame-selection drivers (SpecDrv)
    traj,         \* the trajectory: natoms and payload byte count of each frame
    drvkind,      \* "read_frames" | "filter_frames" | "read_into_array"
    dfsel,        \* the driver's frame_selection
    dasel,        \* the driver's atom_selection
    reversed,     \* filter_frames' reversed flag
    offsets,      \* what determine_offsets returned
    todo,         \* the (idx, offset) pairs the loop has yet to visit
    emitted,      \* the frames read so far, in the order they were read
    dpc,          \* "start" | "loop" | "done"
    \* ---- the compressed-position decoder (SpecDec)
    xframe,       \* the frame decoded: natoms, precision, minint, maxint, smallidx, payload
    dsel,         \* atom_selection of the current call
    positions,    \* the caller's positions buffer, one entry per atom
    dec,          \* the locals of read_compressed_positions that outlive an iteration,
                  \* the flag bit of the last iteration and the write_idx it began with
    dstatus,      \* "idle" | "call" | "running" | "ok" | "panic"
    dphase,       \* "idle" | "ref" (the call with All) | "sel" (the call with a selection)
    refpos,       \* the positions the call with AtomSelection::All left
    dcause,       \* what made the call panic: "none" | "smallidx" | "magicint" | "slot" | "decode"
    \* ---- XTCReader over a whole file (SpecRd)
    rfile,        \* the file, as a sequence of big-endian 4-byte words
    rpos,         \* position of XTCReader::file, in words from the start
    rstep,        \* XTCReader::step
    rres,         \* outcome of the last call: "none" | "ok" | "eof" | "panic"
    rstart,       \* position at which the last read_frame call started
    delivered,    \* the frames returned since the reader was opened or homed
    rcalls,       \* number of read_frame calls made so far
    rhomes,       \* number of home() calls made so far
    roffs,        \* what determine_offsets returned (NoOffs before the call)
    \* ---- the bit reader (SpecBits)
    build,        \* "debug" | "release": whether arithmetic overflow is checked
    bitbuf,       \* the bytes of the bit stream
    bitstate,     \* the DecodeState
    bitsread,     \* the bits asked for by the calls that returned
    lastread,     \* the last call: its kind, nbits, the bit it started at, its result
    bitstatus,    \* "idle" | "ready" | "panic"
    planted       \* the sizes and the triple packed into bitbuf (NoPlant: none)

selVars == <<skind, asel, fsel, ilist, built, qlog>>

drvVars == <<traj, drvkind, dfsel, dasel, reversed, offsets, todo, emitted, dpc>>

decVars == <<xframe, dsel, positions, dec, dstatus, dphase, refpos, dcause>>

rdVars == <<rfile, rpos, rstep, rres, rstart, delivered, rcalls, rhomes, roffs>>

bufVars == <<fcount, fdata, scratch0, bscratch, bidx, bhead, bpos, bpc, btarget,
             bret, uscratch, uhead, upos, upc, uret>>

bitVars == <<build, bitbuf, bitstate, bitsread, lastread, bitstatus, planted>>

----------------------------------------------------------------------------
(* Bounds of the model.                                                    *)

\* Largest index handed to is_included, and largest value inside a selection.
MaxIdx == 4
\* Longest Mask / index list / FrameList drawn as an input.
MaxSelLen == 3
\* Number of is_included calls recorded per behaviour.
MaxQueries == 2
\* Largest payload length drawn for the length prefix.
MaxCount == 6
\* Length of the stale contents a reused scratch Vec may hold.
PrevScratchLen == 6
\* Largest number of frames of a trajectory.
MaxFrames == 3
\* Longest FrameList handed to a driver.
MaxDrvList == 2
\* Bytes of the bit stream handed to decodebits.
BitBytes == 5
\* Atoms of the frame the decoder is run on.
FrameAtoms == 4
\* Bytes of the frame's compressed payload, before padding.
PayloadLen == 4
\* Longest Mask handed to the decoder.
MaxMaskLen == 3

----------------------------------------------------------------------------
(* Generic helpers.                                                        *)

Pow2(n) == 2 ^ n

Min(a, b) == IF a <= b THEN a ELSE b

Max(a, b) == IF a >= b THEN a ELSE b

\* All sequences over S of length at most n.
SeqsUpTo(S, n) == UNION {[1..k -> S] : k \in 0..n}

SeqMax(s) == CHOOSE m \in {s[i] : i \in 1..Len(s)} : \A j \in 1..Len(s) : s[j] <= m

SeqContains(s, x) == \E i \in 1..Len(s) : s[i] = x

\* Option<bool>, the verdict of is_included.
NoneV == [some |-> FALSE, val |-> FALSE]

Some(b) == [some |-> TRUE, val |-> b]

\* Option<u64>, the end of a Range.
NoEnd == [some |-> FALSE, val |-> 0]

SomeEnd(e) == [some |-> TRUE, val |-> e]

\* `idx as u32` on a usize keeps the low 32 bits.  Every index of the model is
\* far below 2^32, where the cast leaves the value as it is.
AsU32(idx) == idx

----------------------------------------------------------------------------
(* src/src/selection.rs                                                    *)

AtomAll == [tag |-> "All", mask |-> <<>>, until |-> 0]

AtomMask(m) == [tag |-> "Mask", mask |-> m, until |-> 0]

AtomUntil(k) == [tag |-> "Until", mask |-> <<>>, until |-> k]

\* Vec index i (0-based) of a TLA+ sequence.
Get(v, i) == v[i + 1]

\* The loop `for &idx in indices { mask[idx as usize] = true; }`.
RECURSIVE SetListed(_, _, _)
SetListed(mask, indices, n) ==
    IF n > Len(indices) THEN mask
    ELSE SetListed([mask EXCEPT ![indices[n] + 1] = TRUE], indices, n + 1)

\* Mutant: the mask is sized max instead of max + 1.
FromIndexList_short(indices) ==
    IF Len(indices) = 0 THEN AtomMask(<<>>)
    ELSE LET max == SeqMax(indices)
         IN  AtomMask(SetListed([i \in 1..max |-> FALSE], indices, 1))

\* AtomSelection::from_index_list
FromIndexList(indices) ==
    IF Len(indices) = 0 THEN AtomMask(<<>>)
    ELSE LET max == SeqMax(indices) + 1
         IN  AtomMask(SetListed([i \in 1..max |-> FALSE], indices, 1))

\* Mutant: Until compares with < (an exclusive stop).
AtomIsIncluded_exclusive(sel, idx0) ==
    LET idx == AsU32(idx0)
    IN  CASE sel.tag = "All" -> Some(TRUE)
          [] sel.tag = "Mask" ->
                IF idx < Len(sel.mask) THEN Some(Get(sel.mask, idx)) ELSE NoneV
          [] sel.tag = "Until" ->
                IF idx < sel.until THEN Some(TRUE) ELSE NoneV

\* AtomSelection::is_included
AtomIsIncluded(sel, idx0) ==
    LET idx == AsU32(idx0)
    IN  CASE sel.tag = "All" -> Some(TRUE)
          [] sel.tag = "Mask" ->
                IF idx < Len(sel.mask) THEN Some(Get(sel.mask, idx)) ELSE NoneV
          [] sel.tag = "Until" ->
                IF idx <= sel.until THEN Some(TRUE) ELSE NoneV

\* struct Range (start: u64, end: Option<u64>, step: NonZeroU64)
MkRange(start, end, step) == [start |-> start, end |-> end, step |-> step]

\* Range::default
DefaultRange == MkRange(0, NoEnd, 1)

FrameAll == [tag |-> "All", range |-> DefaultRange, list |-> <<>>]

FrameRange(r) == [tag |-> "Range", range |-> r, list |-> <<>>]

FrameList(l) == [tag |-> "FrameList", range |-> DefaultRange, list |-> l]

\* Range::is_included
RangeIsIncluded(range, idx) ==
    IF range.end.some /\ range.end.val <= idx THEN NoneV
    ELSE LET in_range == range.start <= idx
             in_step == range.step = 1 \/ (idx + range.start) % range.step = 0
         IN  Some(in_range /\ in_step)

\* Mutant: the FrameList arm answers None for every index that is not listed.
FrameIsIncluded_holes(sel, idx) ==
    CASE sel.tag = "All" -> Some(TRUE)
      [] sel.tag = "Range" -> RangeIsIncluded(sel.range, idx)
      [] sel.tag = "FrameList" ->
            IF Len(sel.list) = 0 THEN NoneV
            ELSE IF SeqContains(sel.list, idx) THEN Some(TRUE) ELSE NoneV

\* FrameSelection::is_included
FrameIsIncluded(sel, idx) ==
    CASE sel.tag = "All" -> Some(TRUE)
      [] sel.tag = "Range" -> RangeIsIncluded(sel.range, idx)
      [] sel.tag = "FrameList" ->
            IF Len(sel.list) = 0 THEN NoneV
            ELSE IF sel.list[Len(sel.list)] < idx THEN NoneV
                 ELSE Some(SeqContains(sel.list, idx))

----------------------------------------------------------------------------
(* SpecSel: the selectors as pure functions.  Init draws a selection, the  *)
(* actions build a mask from an index list and call is_included.           *)

Indices == 0..MaxIdx

AtomSelections ==
    {AtomAll}
    \cup {AtomMask(m) : m \in SeqsUpTo(BOOLEAN, MaxSelLen)}
    \cup {AtomUntil(k) : k \in Indices}

Ranges ==
    {MkRange(s, e, st) :
        s \in 0..2, e \in {NoEnd} \cup {SomeEnd(x) : x \in Indices}, st \in 1..3}

FrameSelections ==
    {FrameAll}
    \cup {FrameRange(r) : r \in Ranges}
    \cup {FrameList(l) : l \in SeqsUpTo(Indices, MaxSelLen)}

IdleBuf ==
    /\ fcount = 0
    /\ fdata = <<>>
    /\ scratch0 = <<>>
    /\ bscratch = <<>>
    /\ bidx = 0
    /\ bhead = 0
    /\ bpos = 0
    /\ bpc = "idle"
    /\ btarget = 0
    /\ bret = -1
    /\ uscratch = <<>>
    /\ uhead = 0
    /\ upos = 0
    /\ upc = "idle"
    /\ uret = -1

\* DecodeState before the first bit is read.
NewDecodeState == [count |-> 0, lastbits |-> 0, lastbyte |-> 0, panic |-> FALSE]

\* The locals of read_compressed_positions before the main loop, for a call
\* that has not been entered.
NoDec ==
    [st |-> NewDecodeState, run |-> 0, smallidx |-> 0, smaller |-> 0,
     smallnum |-> 0, sizesmall |-> <<0, 0, 0>>,
     read_idx |-> 0, write_idx |-> 0, flag |-> 0, start_idx |-> 0]

IdleDec ==
    /\ xframe = [natoms |-> 0, precision |-> 1, minint |-> <<0, 0, 0>>,
                 maxint |-> <<0, 0, 0>>, smallidx |-> 0, payload |-> <<>>]
    /\ dsel = AtomAll
    /\ positions = <<>>
    /\ dec = NoDec
    /\ dstatus = "idle"
    /\ dphase = "idle"
    /\ refpos = <<>>
    /\ dcause = "none"

IdleDrv ==
    /\ traj = <<>>
    /\ drvkind = "idle"
    /\ dfsel = FrameAll
    /\ dasel = AtomAll
    /\ reversed = FALSE
    /\ offsets = <<>>
    /\ todo = <<>>
    /\ emitted = <<>>
    /\ dpc = "idle"

\* A u32 as its bits, least significant first: zero.
Zero32 == [i \in 1..32 |-> 0]

\* No call made yet, and no triple packed into the stream.
NoRead == [kind |-> "none", nbits |-> 0, start |-> 0, num |-> Zero32,
           nums |-> <<0, 0, 0>>]

NoPlant == [sizes |-> <<0, 0, 0>>, nums |-> <<0, 0, 0>>, nbits |-> 0, off |-> 0]

IdleBits ==
    /\ build = "release"
    /\ bitbuf = <<>>
    /\ bitstate = NewDecodeState
    /\ bitsread = 0
    /\ lastread = NoRead
    /\ bitstatus = "idle"
    /\ planted = NoPlant

\* determine_offsets not called yet.
NoOffs == [res |-> "none", until |-> -1, offs |-> <<>>]

IdleRd ==
    /\ rfile = <<>>
    /\ rpos = 0
    /\ rstep = 0
    /\ rres = "none"
    /\ rstart = 0
    /\ delivered = <<>>
    /\ rcalls = 0
    /\ rhomes = 0
    /\ roffs = NoOffs

InitSel ==
    /\ IdleRd
    /\ IdleBits
    /\ IdleBuf
    /\ IdleDrv
    /\ IdleDec
    /\ skind \in {"atom", "frame"}
    /\ asel \in (IF skind = "atom" THEN AtomSelections ELSE {AtomAll})
    /\ fsel \in (IF skind = "frame" THEN FrameSelections ELSE {FrameAll})
    /\ ilist = <<>>
    /\ built = FALSE
    /\ qlog = {}

\* asel = AtomSelection::from_index_list(&indices)
BuildFromIndexList(indices) ==
    /\ skind = "atom"
    /\ ~built
    /\ asel = AtomAll
    /\ qlog = {}
    /\ ilist' = indices
    /\ asel' = FromIndexList(indices)
    /\ built' = TRUE
    /\ UNCHANGED <<skind, fsel, qlog>>
    /\ UNCHANGED <<bufVars, drvVars, decVars, rdVars, bitVars>>

\* asel.is_included(idx)
QueryAtom(idx) ==
    /\ skind = "atom"
    /\ Cardinality(qlog) < MaxQueries
    /\ qlog' = qlog \cup {[idx |-> idx, res |-> AtomIsIncluded(asel, idx)]}
    /\ UNCHANGED <<skind, asel, fsel, ilist, built>>
    /\ UNCHANGED <<bufVars, drvVars, decVars, rdVars, bitVars>>

\* fsel.is_included(idx)
QueryFrame(idx) ==
    /\ skind = "frame"
    /\ Cardinality(qlog) < MaxQueries
    /\ qlog' = qlog \cup {[idx |-> idx, res |-> FrameIsIncluded(fsel, idx)]}
    /\ UNCHANGED <<skind, asel, fsel, ilist, built>>
    /\ UNCHANGED <<bufVars, drvVars, decVars, rdVars, bitVars>>

NextSel ==
    \/ \E indices \in SeqsUpTo(Indices, MaxSelLen) : BuildFromIndexList(indices)
    \/ \E idx \in 0..(MaxIdx + 1) : QueryAtom(idx)
    \/ \E idx \in 0..(MaxIdx + 1) : QueryFrame(idx)

vars == <<selVars, bufVars, drvVars, decVars, rdVars, bitVars>>

SpecSel == InitSel /\ [][NextSel]_vars

----------------------------------------------------------------------------
(* src/src/buffer.rs                                                       *)
(*                                                                         *)
(* The two constants of the Buffered trait are scaled down so that a       *)
(* payload of a few bytes is read in several blocks: MIN_BUFFERED_SIZE is  *)
(* 0x500000 and BLOCK_SIZE is 0x20000 in the source.                       *)

MIN_BUFFERED_SIZE == 4

BLOCK_SIZE == 2

\* padding(count): the XDR padding of an opaque of count bytes.
Padding(count) == (4 - (count % 4)) % 4

\* Vec::resize(n, fill): the first Len(v) elements are kept.
Resize(v, n, fill) == [i \in 1..n |-> IF i <= Len(v) THEN v[i] ELSE fill]

\* usize::saturating_sub(1)
SatSub1(x) == IF x = 0 THEN 0 ELSE x - 1

\* Buffer::size
BufSize == Len(bscratch)

\* Mutant: the padding is left out of what is still to be skipped.
BufLeft_nopad == fcount - bidx

\* Buffer::left
BufLeft == BufSize - bidx

\* Buffer::tell
BufTell == SatSub1(bhead)

\* UnBuffered::tell
UnTell == SatSub1(uhead)

\* Mutant: a fetch of the first unread byte does not read.
BufNeedsRead_late(index) == index > bidx

\* The test `index >= self.idx` of Buffer::fetch.
BufNeedsRead(index) == index >= bidx

\* What Read::read may return for a buffer of req bytes with avail bytes left
\* in the file: any positive count up to both, or 0 when either is 0.
ReadCounts(req, avail) ==
    IF Min(req, avail) = 0 THEN {0} ELSE 1..Min(req, avail)

\* The bytes of the file still unread by Buffer's reader.
BufAvail == Len(fdata) - (bpos - 4)

\* The length of the slice scratch[idx..until] that read_to_include hands to
\* reader.read, with until = min(size, index + BLOCK_SIZE).
BufRequest == Min(BufSize, btarget + BLOCK_SIZE) - bidx

\* Mutant: what the caller's scratch held counts as read already.
NewIdx_keep(prev) == Len(prev)

\* The idx of a Buffer made by new(): nothing of the scratch is read yet.
NewIdx(prev) == 0

\* Buffer::new and UnBuffered::new (read_opaque), each on its own reader over
\* the same file and with its own copy of the caller's scratch.
New ==
    /\ bpc = "init"
    /\ upc = "init"
    /\ LET size == fcount + Padding(fcount)
       IN  /\ bscratch' = Resize(scratch0, size, 255)
           /\ bidx' = NewIdx(scratch0)
           /\ bhead' = 0
           /\ bpos' = 4
           /\ IF size <= MIN_BUFFERED_SIZE
              THEN bpc' = "new_read" /\ btarget' = SatSub1(fcount)
              ELSE bpc' = "ready" /\ btarget' = 0
           /\ uhead' = 0
           /\ IF Len(fdata) >= size
              THEN /\ uscratch' = [i \in 1..size |-> fdata[i]]
                   /\ upos' = 4 + size
                   /\ upc' = "ready"
              ELSE \* read_exact fails with UnexpectedEof
                   /\ uscratch' = Resize(scratch0, size, 0)
                   /\ upos' = 4 + Len(fdata)
                   /\ upc' = "error"
    /\ UNCHANGED <<fcount, fdata, scratch0, bret, uret>>
    /\ UNCHANGED <<selVars, drvVars, decVars, rdVars, bitVars>>

\* One pass of the loop of Buffer::read_to_include: a single reader.read into
\* scratch[idx..until].  The pass that makes idx exceed the index ends the
\* loop, and with it new() or the fetch that called it.
BufRead ==
    /\ bpc \in {"new_read", "fetch_read"}
    /\ bidx <= btarget
    /\ LET req == BufRequest
       IN  \E r \in ReadCounts(req, BufAvail) :
             /\ bscratch' = [i \in 1..BufSize |->
                               IF bidx < i /\ i <= bidx + r
                               THEN fdata[(bpos - 4) + (i - bidx)]
                               ELSE bscratch[i]]
             /\ bidx' = bidx + r
             /\ bpos' = bpos + r
             /\ \/ /\ bidx + r <= btarget
                   /\ UNCHANGED <<bpc, bhead, bret>>
                \/ /\ bidx + r > btarget
                   /\ bpc = "new_read"
                   /\ bpc' = "ready"
                   /\ UNCHANGED <<bhead, bret>>
                \/ /\ bidx + r > btarget
                   /\ bpc = "fetch_read"
                   /\ bpc' = "ready"
                   /\ bhead' = Max(bhead, btarget)
                   /\ bret' = Get(bscratch', btarget)
    /\ UNCHANGED <<fcount, fdata, scratch0, btarget, uscratch, uhead, upos, upc, uret>>
    /\ UNCHANGED <<selVars, drvVars, decVars, rdVars, bitVars>>

\* fetch(index) on both buffers.  The index is within the scratch buffer, as
\* the trait requires.  UnBuffered answers at once; Buffer answers at once
\* when the byte was read already and reads first otherwise.
Fetch(index) ==
    /\ bpc = "ready"
    /\ upc \in {"ready", "error"}
    /\ index < BufSize
    /\ IF BufNeedsRead(index)
       THEN /\ bpc' = "fetch_read"
            /\ btarget' = index
            /\ UNCHANGED <<bhead, bret>>
       ELSE /\ bhead' = Max(bhead, index)
            /\ bret' = Get(bscratch, index)
            /\ UNCHANGED <<bpc, btarget>>
    /\ IF upc = "ready"
       THEN /\ uhead' = Max(uhead, index)
            /\ uret' = Get(uscratch, index)
       ELSE UNCHANGED <<uhead, uret>>
    /\ UNCHANGED <<fcount, fdata, scratch0, bscratch, bidx, bpos, uscratch, upos, upc>>
    /\ UNCHANGED <<selVars, drvVars, decVars, rdVars, bitVars>>

\* finish() on both buffers: Buffer seeks over what it has not read,
\* UnBuffered does nothing.
Finish ==
    /\ bpc = "ready"
    /\ bpos' = bpos + BufLeft
    /\ bpc' = "finished"
    /\ upc' = (IF upc = "ready" THEN "finished" ELSE upc)
    /\ UNCHANGED <<fcount, fdata, scratch0, bscratch, bidx, bhead, btarget, bret,
                   uscratch, uhead, upos, uret>>
    /\ UNCHANGED <<selVars, drvVars, decVars, rdVars, bitVars>>

----------------------------------------------------------------------------
(* SpecBuf: one opaque payload, read through both buffers.                 *)

IdleSel ==
    /\ skind = "idle"
    /\ asel = AtomAll
    /\ fsel = FrameAll
    /\ ilist = <<>>
    /\ built = FALSE
    /\ qlog = {}

\* The file after the length prefix: byte i is (base + i) mod 256, so that
\* neighbouring bytes differ and the fill values 0 and 0xff occur as data.
FileBytes(base, n) == [i \in 1..n |-> (base + i) % 256]

InitBuf ==
    /\ IdleRd
    /\ IdleBits
    /\ IdleSel
    /\ IdleDrv
    /\ IdleDec
    /\ fcount \in 0..MaxCount
    /\ \E base \in {16, 250}, cut \in {0, 1}, trail \in {0, 2} :
         LET size == fcount + Padding(fcount)
         IN  fdata = FileBytes(base, IF cut = 1 THEN SatSub1(size) ELSE size + trail)
    /\ scratch0 \in {<<>>, [i \in 1..PrevScratchLen |-> 238]}
    /\ bscratch = <<>>
    /\ bidx = 0
    /\ bhead = 0
    /\ bpos = 0
    /\ bpc = "init"
    /\ btarget = 0
    /\ bret = -1
    /\ uscratch = <<>>
    /\ uhead = 0
    /\ upos = 0
    /\ upc = "init"
    /\ uret = -1

NextBuf ==
    \/ New
    \/ BufRead
    \/ \E index \in 0..(MaxCount + 3) : Fetch(index)
    \/ Finish

SpecBuf == InitBuf /\ [][NextBuf]_vars

----------------------------------------------------------------------------
(* The frame-selection drivers: filter_frames (src/src/main.rs) and        *)
(* read_into_array (src/bindings/python/src/lib.rs).  read_frames,         *)
(* FrameSelection::until and determine_offsets are called by them and by   *)
(* the tests but are not among the sources; they follow the specification. *)

\* Bytes of a compressed frame: the magic number, the 84 bytes up to the
\* payload's byte count, the byte count, the payload and its padding.
FrameSize(f) == 4 + 84 + 4 + f.nbytes + Padding(f.nbytes)

\* Byte offset of the header of frame idx (0-based) of trajectory t.
RECURSIVE FrameOffset(_, _)
FrameOffset(t, idx) ==
    IF idx = 0 THEN 0 ELSE FrameOffset(t, idx - 1) + FrameSize(t[idx])

\* FrameSelection::until: the number of leading frames the selection needs
\* (an empty list asks for no bound; it includes no frame either way).
FrameUntil(sel) ==
    CASE sel.tag = "All" -> NoEnd
      [] sel.tag = "Range" -> sel.range.end
      [] sel.tag = "FrameList" ->
            IF Len(sel.list) = 0 THEN NoEnd ELSE SomeEnd(SeqMax(sel.list) + 1)

\* determine_offsets_exclusive(until): the stream position after each frame
\* scanned, the scan ending at the end of the file or after until frames.
DetermineOffsetsExclusive(t, until) ==
    LET n == IF until.some THEN Min(Len(t), until.val) ELSE Len(t)
    IN  [i \in 1..n |-> FrameOffset(t, i)]

\* determine_offsets(until) = [0] ++ exclusive[..len - 1].
DetermineOffsets(t, until) ==
    LET exclusive == DetermineOffsetsExclusive(t, until)
    IN  <<0>> \o SubSeq(exclusive, 1, Len(exclusive) - 1)

\* offsets.iter().enumerate(), reversed on demand.
Enumerated(offs, rev) ==
    [k \in 1..Len(offs) |->
        LET i == IF rev THEN Len(offs) + 1 - k ELSE k
        IN  [idx |-> i - 1, offset |-> offs[i]]]

\* The number of positions a frame of natoms atoms is read into under an
\* atom selection: min(natoms, atoms selected).
SelectedAtoms(sel, natoms) ==
    CASE sel.tag = "All" -> natoms
      [] sel.tag = "Until" -> Min(natoms, sel.until)
      [] sel.tag = "Mask" ->
            Cardinality({i \in 1..Min(natoms, Len(sel.mask)) : sel.mask[i]})

\* The frame read at an entry of the enumeration.
FrameAt(e) ==
    [idx |-> e.idx, offset |-> e.offset,
     natoms |-> SelectedAtoms(dasel, traj[e.idx + 1].natoms)]

\* Mutant: a frame that is not selected ends the traversal.
FilterArm_stop(verdict, rev) ==
    IF verdict = Some(TRUE) THEN "process" ELSE "break"

\* The match on frame_selection.is_included(idx) in filter_frames.
FilterArm(verdict, rev) ==
    CASE verdict = Some(TRUE) -> "process"
      [] verdict = Some(FALSE) -> "continue"
      [] verdict = NoneV /\ ~rev -> "continue"
      [] verdict = NoneV /\ rev -> "break"

\* The filter_map on selection.is_included(idx) in read_into_array.
ArrayArm(verdict) ==
    CASE verdict = Some(TRUE) -> "process"
      [] verdict = Some(FALSE) -> "continue"
      [] verdict = NoneV -> "continue"

\* The dispatch on frame_selection.is_included(idx) in read_frames.
ReadFramesArm(verdict) ==
    CASE verdict = Some(TRUE) -> "process"
      [] verdict = Some(FALSE) -> "continue"
      [] verdict = NoneV -> "break"

\* The arm a driver takes for a verdict.
DriverArm(verdict) ==
    CASE drvkind = "filter_frames" -> FilterArm(verdict, reversed)
      [] drvkind = "read_into_array" -> ArrayArm(verdict)
      [] drvkind = "read_frames" -> ReadFramesArm(verdict)

\* The head of a driver: determine_offsets(frame_selection.until()) and the
\* enumeration of the offsets.
DrvStart ==
    /\ dpc = "start"
    /\ offsets' = DetermineOffsets(traj, FrameUntil(dfsel))
    /\ todo' = Enumerated(offsets', drvkind = "filter_frames" /\ reversed)
    /\ dpc' = "loop"
    /\ UNCHANGED <<traj, drvkind, dfsel, dasel, reversed, emitted>>
    /\ UNCHANGED <<selVars, bufVars, decVars, rdVars, bitVars>>

\* One iteration of a driver's loop over the enumerated offsets.
DrvStep ==
    /\ dpc = "loop"
    /\ Len(todo) > 0
    /\ LET e == Head(todo)
           arm == DriverArm(FrameIsIncluded(dfsel, e.idx))
       IN  \/ /\ arm = "process"
              /\ emitted' = Append(emitted, FrameAt(e))
              /\ todo' = Tail(todo)
              /\ UNCHANGED dpc
           \/ /\ arm = "continue"
              /\ todo' = Tail(todo)
              /\ UNCHANGED <<emitted, dpc>>
           \/ /\ arm = "break"
              /\ dpc' = "done"
              /\ UNCHANGED <<emitted, todo>>
    /\ UNCHANGED <<traj, drvkind, dfsel, dasel, reversed, offsets>>
    /\ UNCHANGED <<selVars, bufVars, decVars, rdVars, bitVars>>

\* The loop ran out of offsets: the driver returns.
DrvReturn ==
    /\ dpc = "loop"
    /\ Len(todo) = 0
    /\ dpc' = "done"
    /\ UNCHANGED <<traj, drvkind, dfsel, dasel, reversed, offsets, todo, emitted>>
    /\ UNCHANGED <<selVars, bufVars, decVars, rdVars, bitVars>>

----------------------------------------------------------------------------
(* SpecDrv: one run of a driver over a trajectory.                         *)

DrvIndices == 0..(MaxFrames + 1)

DrvFrameSelections ==
    {FrameAll}
    \cup {FrameRange(MkRange(s, e, st)) :
            s \in 0..2, e \in {NoEnd} \cup {SomeEnd(x) : x \in DrvIndices}, st \in 1..3}
    \cup {FrameList(l) : l \in SeqsUpTo(DrvIndices, MaxDrvList)}

InitDrv ==
    /\ IdleRd
    /\ IdleBits
    /\ IdleSel
    /\ IdleBuf
    /\ IdleDec
    /\ \E n \in 1..MaxFrames, natoms \in {10, 12}, b \in {5, 8} :
          traj = [i \in 1..n |-> [natoms |-> natoms, nbytes |-> b + i]]
    /\ drvkind \in {"read_frames", "filter_frames", "read_into_array"}
    /\ dfsel \in DrvFrameSelections
    /\ dasel \in {AtomAll, AtomUntil(11)}
    /\ reversed \in (IF drvkind = "filter_frames" THEN BOOLEAN ELSE {FALSE})
    /\ offsets = <<>>
    /\ todo = <<>>
    /\ emitted = <<>>
    /\ dpc = "start"

NextDrv ==
    \/ DrvStart
    \/ DrvStep
    \/ DrvReturn

SpecDrv == InitDrv /\ [][NextDrv]_vars

----------------------------------------------------------------------------
(* src/src/reader.rs: the bit reader and the integer unpacking.  Values    *)
(* are naturals; the model's frames keep every intermediate below 2^31, so *)
(* the wrapping of u32 shifts never comes into play, and an operator asked *)
(* for a width beyond that has no value.                                   *)

MAGICINTS ==
    <<0, 0, 0, 0, 0, 0, 0, 0, 0, 8,
      10, 12, 16, 20, 25, 32, 40, 50, 64, 80,
      101, 128, 161, 203, 256, 322, 406, 512, 645, 812,
      1024, 1290, 1625, 2048, 2580, 3250, 4096, 5060, 6501, 8192,
      10321, 13003, 16384, 20642, 26007, 32768, 41285, 52015, 65536, 82570,
      104031, 131072, 165140, 208063, 262144, 330280, 416127, 524287, 660561, 832255,
      1048576, 1321122, 1664510, 2097152, 2642245, 3329021, 4194304, 5284491, 6658042, 8388607,
      10568983, 13316085, 16777216>>

FIRSTIDX == 9

\* F(v), with v evaluated once, before F is.
Bind(v, F(_)) == CHOOSE y \in {F(x) : x \in {v}} : TRUE

\* MAGICINTS[i], for an index within the table.
MagicInt(i) == MAGICINTS[i + 1]

\* a | b
RECURSIVE BitOr(_, _)
BitOr(a, b) ==
    IF a = 0 THEN b
    ELSE IF b = 0 THEN a
    ELSE 2 * BitOr(a \div 2, b \div 2) + Max(a % 2, b % 2)

\* x >> n
Shr(x, n) == x \div Pow2(n)

\* x << n
Shl(x, n) == x * Pow2(n)

\* x & mask, for a mask that is a string of low ones.
AndMask(x, mask) == x % (mask + 1)

\* lastbyte = (lastbyte << 8) | buf[count]; count += 1.  Indexing buf past
\* its end panics: the panic field remembers it.
PushByte(buf, s) ==
    [s EXCEPT !.lastbyte = BitOr(Shl(s.lastbyte, 8),
                                 IF s.count < Len(buf) THEN buf[s.count + 1] ELSE 0),
              !.count = s.count + 1,
              !.panic = s.panic \/ s.count >= Len(buf)]

\* while nbits >= 8 { ... } of decodebits and decodebyte.
RECURSIVE DecodeWhole(_, _)
DecodeWhole(buf, s) ==
    IF s.nbits >= 8
    THEN Bind(PushByte(buf, s), LAMBDA p :
         Bind([p EXCEPT !.num = BitOr(p.num, Shl(Shr(p.lastbyte, p.lastbits), p.nbits - 8)),
                        !.nbits = p.nbits - 8],
              LAMBDA q : DecodeWhole(buf, q)))
    ELSE s

\* if nbits > 0 { ... } of decodebits and decodebyte.
DecodeRest(buf, s, mask) ==
    IF s.nbits > 0
    THEN Bind(IF s.lastbits < s.nbits
              THEN [PushByte(buf, s) EXCEPT !.lastbits = s.lastbits + 8]
              ELSE s,
              LAMBDA p :
                LET lastbits == p.lastbits - p.nbits
                IN  [p EXCEPT !.lastbits = lastbits,
                              !.num = BitOr(p.num, AndMask(Shr(p.lastbyte, lastbits), mask))])
    ELSE s

\* The locals of decodebits and decodebyte on entry.
DecodeLocals(st, nbits) ==
    [count |-> st.count, lastbits |-> st.lastbits, lastbyte |-> st.lastbyte,
     panic |-> st.panic, num |-> 0, nbits |-> nbits]

\* The value and the DecodeState decodebits and decodebyte leave.
DecodeResult(s, mask) ==
    [num |-> AndMask(s.num, mask),
     st |-> [count |-> s.count, lastbits |-> s.lastbits,
             lastbyte |-> AndMask(s.lastbyte, 255), panic |-> s.panic]]

\* decodebyte(buf, state)
DecodeByte(buf, st) ==
    Bind(DecodeLocals(st, 8), LAMBDA s0 :
    Bind(DecodeWhole(buf, s0), LAMBDA s1 :
    Bind(DecodeRest(buf, s1, 255), LAMBDA s2 : DecodeResult(s2, 255))))

\* decodebits(buf, state, nbits)
DecodeBits(buf, st, nbits) ==
    CASE nbits <= 15 ->
        LET mask == Shl(1, nbits) - 1
        IN  Bind(DecodeLocals(st, nbits), LAMBDA s0 :
            Bind(DecodeWhole(buf, s0), LAMBDA s1 :
            Bind(DecodeRest(buf, s1, mask), LAMBDA s2 : DecodeResult(s2, mask))))

\* The two byte-collecting steps of unpack_from_int_into_u32; s holds st, v,
\* nbytes and nbits.
RECURSIVE UnpackBytes(_, _)
UnpackBytes(buf, s) ==
    IF s.nbits >= 8
    THEN Bind(DecodeByte(buf, s.st), LAMBDA d :
         Bind([st |-> d.st, v |-> BitOr(s.v, Shl(d.num, 8 * s.nbytes)),
               nbytes |-> s.nbytes + 1, nbits |-> s.nbits - 8],
              LAMBDA n : UnpackBytes(buf, n)))
    ELSE IF s.nbits > 0
    THEN Bind(DecodeBits(buf, s.st, s.nbits), LAMBDA d :
              [s EXCEPT !.st = d.st, !.v = BitOr(s.v, Shl(d.num, 8 * s.nbytes))])
    ELSE s

\* v / m and v % m for a u32 or u64 v held as its bytes, least significant
\* first: the quotient's bytes and the remainder.
RECURSIVE DivDigits(_, _, _, _)
DivDigits(bytes, m, k, rem) ==
    IF k = 0 THEN [q |-> bytes, r |-> rem]
    ELSE Bind(rem * 256 + bytes[k], LAMBDA num :
              DivDigits([bytes EXCEPT ![k] = num \div m], m, k - 1, num % m))

\* i32::from_le_bytes(bytes[..4]), and `as i32` of a u64 or u32 held as
\* bytes: the low 32 bits in two's complement.
I32FromLeBytes(bytes) ==
    bytes[1] + 256 * bytes[2] + 65536 * bytes[3]
    + 16777216 * (IF bytes[4] >= 128 THEN bytes[4] - 256 ELSE bytes[4])

\* The two byte-collecting steps of unpack_from_int_into_u32 and _u64 on a
\* v of width bytes: `v |= byte << (8 * nbytes)` puts the byte at place
\* nbytes.
RECURSIVE UnpackWideBytes(_, _)
UnpackWideBytes(buf, s) ==
    IF s.nbits >= 8
    THEN Bind(DecodeByte(buf, s.st), LAMBDA d :
         Bind([st |-> d.st, v |-> [s.v EXCEPT ![s.nbytes + 1] = BitOr(@, d.num)],
               nbytes |-> s.nbytes + 1, nbits |-> s.nbits - 8],
              LAMBDA n : UnpackWideBytes(buf, n)))
    ELSE IF s.nbits > 0
    THEN Bind(DecodeBits(buf, s.st, s.nbits), LAMBDA d :
              [s EXCEPT !.st = d.st, !.v = [s.v EXCEPT ![s.nbytes + 1] = BitOr(@, d.num)]])
    ELSE s

\* The body shared by unpack_from_int_into_u32 and _u64, v being width
\* bytes wide, for sizes whose sz * sy stays below 2^23.
UnpackWide(buf, st, nbits, sizes, width) ==
    Bind(UnpackWideBytes(buf, [st |-> st, v |-> [i \in 1..width |-> 0],
                               nbytes |-> 0, nbits |-> nbits]),
         LAMBDA u :
            LET sz == sizes[3]
                sy == sizes[2]
            IN  IF sz = 0 \/ sy = 0
                THEN [st |-> [u.st EXCEPT !.panic = TRUE], nums |-> <<0, 0, 0>>]
                ELSE CASE sz <= 8388607 \div sy ->
                        Bind(DivDigits(u.v, sz * sy, width, 0), LAMBDA d :
                            LET x1 == I32FromLeBytes(d.q)
                                q1 == d.r
                                y1 == q1 \div sz
                                z1 == q1 - y1 * sz
                            IN  [st |-> u.st, nums |-> <<x1, y1, z1>>]))

\* unpack_from_int_into_u64(buf, state, nbits, sizes, nums)
UnpackFromIntIntoU64(buf, st, nbits, sizes) == UnpackWide(buf, st, nbits, sizes, 8)

\* unpack_from_int_into_u32(buf, state, nbits, sizes, nums); a division by
\* zero panics.
UnpackFromIntIntoU32(buf, st, nbits, sizes) ==
    CASE nbits <= 30 ->
        Bind(UnpackBytes(buf, [st |-> st, v |-> 0, nbytes |-> 0, nbits |-> nbits]),
             LAMBDA u :
                LET sz == sizes[3]
                    sy == sizes[2]
                    szy == sz * sy
                IN  IF szy = 0
                    THEN [st |-> [u.st EXCEPT !.panic = TRUE], nums |-> <<0, 0, 0>>]
                    ELSE LET x1 == u.v \div szy
                             q1 == u.v - x1 * szy
                             y1 == q1 \div sz
                             z1 == q1 - y1 * sz
                         IN  [st |-> u.st, nums |-> <<x1, y1, z1>>])
      [] nbits <= 32 -> UnpackWide(buf, st, nbits, sizes, 4)

\* The bytes decodeints collects when nbits > 64: s holds st, bytes, nbytes
\* and nbits.
RECURSIVE CollectBytes(_, _)
CollectBytes(buf, s) ==
    IF s.nbits >= 8
    THEN Bind(DecodeByte(buf, s.st), LAMBDA d :
         Bind([st |-> d.st, bytes |-> [s.bytes EXCEPT ![s.nbytes + 1] = d.num],
               nbytes |-> s.nbytes + 1, nbits |-> s.nbits - 8],
              LAMBDA n : CollectBytes(buf, n)))
    ELSE IF s.nbits > 0
    THEN Bind(DecodeBits(buf, s.st, s.nbits), LAMBDA d :
              [s EXCEPT !.st = d.st, !.bytes = [s.bytes EXCEPT ![s.nbytes + 1] = d.num],
                        !.nbytes = s.nbytes + 1])
    ELSE s

\* `for j in 0..nbytes { ... }` of decodeints: the bytes are divided by
\* size from the top byte down, num being a u32 (sizes below 2^23 keep
\* num << 8 within it).
RECURSIVE DivideBytes(_, _, _, _, _)
DivideBytes(bytes, size, nbytes, j, num) ==
    IF j >= nbytes THEN [bytes |-> bytes, num |-> num]
    ELSE CASE num < Pow2(23) ->
            LET k == nbytes - 1 - j
            IN  Bind(BitOr(Shl(num, 8), bytes[k + 1]), LAMBDA n1 :
                Bind(n1 \div size, LAMBDA p :
                     DivideBytes([bytes EXCEPT ![k + 1] = AndMask(p, 255)], size,
                                 nbytes, j + 1, n1 - p * size)))

\* `for i in (0..2).rev()`: the indices of sizes and nums the long division
\* runs over, in that order.
DivideOrder == <<1, 0>>

\* The passes of `for i in (0..2).rev() { ... nums[i] = num as i32; }`.
RECURSIVE DividePasses(_, _, _, _)
DividePasses(s, sizes, order, n) ==
    IF n > Len(order) THEN s
    ELSE LET i == order[n]
         IN  IF sizes[i + 1] = 0 THEN [s EXCEPT !.panic = TRUE]
             ELSE Bind(DivideBytes(s.bytes, sizes[i + 1], s.nbytes, 0, 0), LAMBDA d :
                       DividePasses([s EXCEPT !.bytes = d.bytes, !.nums[i + 1] = d.num],
                                    sizes, order, n + 1))

\* decodeints for nbits > 64: the bytes, the long divisions, and nums[0]
\* from the four low bytes of what is left.
DecodeIntsBytes(buf, st, nbits, sizes, nums) ==
    Bind(CollectBytes(buf, [st |-> st, bytes |-> [i \in 1..32 |-> 0],
                            nbytes |-> 0, nbits |-> nbits]), LAMBDA c :
    Bind(DividePasses([bytes |-> c.bytes, nbytes |-> c.nbytes, nums |-> nums,
                       panic |-> FALSE], sizes, DivideOrder, 1), LAMBDA d :
         [st |-> [c.st EXCEPT !.panic = c.st.panic \/ d.panic],
          nums |-> [d.nums EXCEPT ![1] = I32FromLeBytes(d.bytes)]]))

\* decodeints(buf, state, nbits, sizes, nums): nums as the call leaves it.
DecodeIntsInto(buf, st, nbits, sizes, nums) ==
    IF nbits <= 32 THEN UnpackFromIntIntoU32(buf, st, nbits, sizes)
    ELSE IF nbits <= 64 THEN UnpackFromIntIntoU64(buf, st, nbits, sizes)
    ELSE DecodeIntsBytes(buf, st, nbits, sizes, nums)

\* decodeints on a nums it overwrites whole: packed integers of at most 64
\* bits.
DecodeInts(buf, st, nbits, sizes) ==
    CASE nbits <= 64 -> DecodeIntsInto(buf, st, nbits, sizes, <<0, 0, 0>>)

\* sizeofint(size)
RECURSIVE SizeOfIntLoop(_, _, _)
SizeOfIntLoop(size, n, nbits) ==
    IF size >= n /\ nbits < 32 THEN SizeOfIntLoop(size, 2 * n, nbits + 1) ELSE nbits

SizeOfInt(size) == SizeOfIntLoop(size, 1, 0)

\* The first inner loop of sizeofints: the digits bytes[0..nbytes] times size.
RECURSIVE MulDigits(_, _, _, _)
MulDigits(bytes, size, bytecount, tmp) ==
    IF bytecount < Len(bytes)
    THEN Bind(tmp + bytes[bytecount + 1] * size, LAMBDA t :
         Bind([bytes EXCEPT ![bytecount + 1] = AndMask(t, 255)], LAMBDA b :
              MulDigits(b, size, bytecount + 1, Shr(t, 8))))
    ELSE [bytes |-> bytes, tmp |-> tmp]

\* The second inner loop of sizeofints: the carry becomes new digits.
RECURSIVE CarryOut(_, _)
CarryOut(bytes, tmp) ==
    IF tmp # 0
    THEN Bind(Append(bytes, AndMask(tmp, 255)), LAMBDA b : CarryOut(b, Shr(tmp, 8)))
    ELSE bytes

\* One pass of `for size in sizes` of sizeofints, on the digits in use.
MulBytes(bytes, size) ==
    Bind(MulDigits(bytes, size, 0, 0), LAMBDA m : CarryOut(m.bytes, m.tmp))

\* The closing loop of sizeofints: the bits of the top digit.
RECURSIVE TopBits(_, _, _)
TopBits(top, num, nbits) ==
    IF top >= num THEN TopBits(top, num * 2, nbits + 1) ELSE nbits

\* sizeofints(sizes)
SizeOfInts(sizes) ==
    Bind(MulBytes(<<1>>, sizes[1]), LAMBDA b1 :
    Bind(MulBytes(b1, sizes[2]), LAMBDA b2 :
    Bind(MulBytes(b2, sizes[3]), LAMBDA bytes :
        LET nbytes == Len(bytes) - 1
        IN  nbytes * 8 + TopBits(bytes[nbytes + 1], 1, 0))))

\* calc_sizeint(minint, maxint, sizeint, bitsizeint) and its return value.
CalcSizeInt(minint, maxint) ==
    LET sizeint == <<(maxint[1] - minint[1]) + 1, (maxint[2] - minint[2]) + 1,
                     (maxint[3] - minint[3]) + 1>>
    IN  IF BitOr(BitOr(sizeint[1], sizeint[2]), sizeint[3]) > 16777215
        THEN [sizeint |-> sizeint,
              bitsizeint |-> [i \in 1..3 |-> SizeOfInt(sizeint[i])],
              bitsize |-> 0]
        ELSE [sizeint |-> sizeint,
              bitsizeint |-> <<0, 0, 0>>,
              bitsize |-> SizeOfInts(sizeint)]

----------------------------------------------------------------------------
(* src/src/reader.rs: read_compressed_positions.                           *)

\* An entry of the positions buffer the call has not written.
Stale == <<<<0, 0>>, <<0, 0>>, <<0, 0>>>>

\* coord.map(|v| v as f32 * invprecision): each component is the quotient of
\* the integer coordinate and the precision, kept as that pair.
ToPosition(coord, precision) ==
    <<<<coord[1], precision>>, <<coord[2], precision>>, <<coord[3], precision>>>>

\* positions.array_chunks_mut().nth(write_idx)
NoSlot == [some |-> FALSE, val |-> 0]

NthSlot(nslots, write_idx) ==
    IF write_idx < nslots THEN [some |-> TRUE, val |-> write_idx] ELSE NoSlot

\* write_position!(position, write_idx, coord), on the locals r of an
\* iteration.
WritePosition(r, sel, coord, precision) ==
    Bind(AtomIsIncluded(sel, r.write_idx), LAMBDA verdict :
        IF verdict = NoneV THEN [r EXCEPT !.exit = "return"]
        ELSE IF verdict = Some(FALSE) THEN r
        ELSE [r EXCEPT !.pos[r.slot + 1] = ToPosition(coord, precision),
                       !.write_idx = r.write_idx + 1])

\* Mutant: a positions buffer that the swapped atom fills panics, as an
\* unwrap of the next slot does.
RefreshAfterSwap_unwrap(r) ==
    Bind(NthSlot(Len(r.pos), r.write_idx), LAMBDA s :
        IF s.some THEN [r EXCEPT !.slot = s.val] ELSE [r EXCEPT !.exit = "panic"])

\* After the write of the swapped atom (k == 0):
\* position = match positions.array_chunks_mut().nth(write_idx)
\*     { Some(c) => c, None => break }
RefreshAfterSwap(r) ==
    Bind(NthSlot(Len(r.pos), r.write_idx), LAMBDA s :
        IF s.some THEN [r EXCEPT !.slot = s.val] ELSE [r EXCEPT !.exit = "break"])

\* After the write that ends a step of the run, the same match.
RefreshSlot(r) ==
    Bind(NthSlot(Len(r.pos), r.write_idx), LAMBDA s :
        IF s.some THEN [r EXCEPT !.slot = s.val] ELSE [r EXCEPT !.exit = "break"])

\* Mutant: the first step of a run without the water swap.
RunFirst_noswap(c, r, moved) ==
    Bind([r EXCEPT !.coord = moved], LAMBDA sw :
    Bind(WritePosition(sw, c.sel, sw.prevcoord, c.precision), LAMBDA w1 :
    Bind(IF w1.exit = "none" THEN RefreshAfterSwap(w1) ELSE w1, LAMBDA f1 :
    Bind(IF f1.exit = "none"
         THEN WritePosition(f1, c.sel, f1.coord, c.precision)
         ELSE f1,
         LAMBDA w2 : IF w2.exit = "none" THEN RefreshSlot(w2) ELSE w2))))

\* The first step of a run (k == 0): the water swap and its two writes, on
\* the locals r after decodeints and read_idx += 1, moved being the new
\* coord.
RunFirst(c, r, moved) ==
    Bind([r EXCEPT !.coord = r.prevcoord, !.prevcoord = moved], LAMBDA sw :
    Bind(WritePosition(sw, c.sel, sw.prevcoord, c.precision), LAMBDA w1 :
    Bind(IF w1.exit = "none" THEN RefreshAfterSwap(w1) ELSE w1, LAMBDA f1 :
    Bind(IF f1.exit = "none"
         THEN WritePosition(f1, c.sel, f1.coord, c.precision)
         ELSE f1,
         LAMBDA w2 : IF w2.exit = "none" THEN RefreshSlot(w2) ELSE w2))))

\* A later step of a run (k > 0): prevcoord = coord and one write.
RunLater(c, r, moved) ==
    Bind([r EXCEPT !.coord = moved, !.prevcoord = moved], LAMBDA a :
    Bind(WritePosition(a, c.sel, a.coord, c.precision), LAMBDA w :
         IF w.exit = "none" THEN RefreshSlot(w) ELSE w))

\* for k in (0..run).step_by(3) { ... }, from step k on.  c holds what the
\* loop reads but does not change: buf, precision, sel, smallidx, smallnum,
\* sizesmall, run.
RECURSIVE RunLoop(_, _, _)
RunLoop(c, k, r) ==
    IF k >= c.run \/ r.exit # "none" THEN r
    ELSE
        Bind(DecodeInts(c.buf, r.st, c.smallidx, c.sizesmall), LAMBDA d :
        Bind(<<d.nums[1] + r.prevcoord[1] - c.smallnum,
               d.nums[2] + r.prevcoord[2] - c.smallnum,
               d.nums[3] + r.prevcoord[3] - c.smallnum>>, LAMBDA moved :
        Bind([r EXCEPT !.st = d.st, !.read_idx = r.read_idx + 1], LAMBDA r1 :
        Bind(IF k = 0 THEN RunFirst(c, r1, moved) ELSE RunLater(c, r1, moved),
             LAMBDA r2 : RunLoop(c, k + 3, r2)))))

\* The triple at the head of an iteration: three decodebits in large mode,
\* one decodeints otherwise.
DecodeCoord(buf, st, cs) ==
    IF cs.bitsize = 0
    THEN Bind(DecodeBits(buf, st, cs.bitsizeint[1]), LAMBDA x :
         Bind(DecodeBits(buf, x.st, cs.bitsizeint[2]), LAMBDA y :
         Bind(DecodeBits(buf, y.st, cs.bitsizeint[3]), LAMBDA z :
              [st |-> z.st, nums |-> <<x.num, y.num, z.num>>])))
    ELSE DecodeInts(buf, st, cs.bitsize, cs.sizeint)

\* [v; 3] and sizesmall.fill(v)
Fill3(v) == <<v, v, v>>

\* Mutant: the upward adaptation leaves smaller as it was.
Adapt_stale(d, is_smaller) ==
    IF is_smaller < 0
    THEN [d EXCEPT !.smallidx = d.smallidx - 1,
                   !.smallnum = d.smaller,
                   !.smaller = IF d.smallidx - 1 > FIRSTIDX
                               THEN MagicInt(d.smallidx - 2) \div 2
                               ELSE 0]
    ELSE IF is_smaller > 0
    THEN [d EXCEPT !.smallidx = d.smallidx + 1,
                   !.smallnum = MagicInt(d.smallidx + 1) \div 2]
    ELSE d

\* match is_smaller.cmp(&0) { ... }: the change of smallidx, smallnum and
\* smaller for the next iteration.
Adapt(d, is_smaller) ==
    IF is_smaller < 0
    THEN [d EXCEPT !.smallidx = d.smallidx - 1,
                   !.smallnum = d.smaller,
                   !.smaller = IF d.smallidx - 1 > FIRSTIDX
                               THEN MagicInt(d.smallidx - 2) \div 2
                               ELSE 0]
    ELSE IF is_smaller > 0
    THEN [d EXCEPT !.smallidx = d.smallidx + 1,
                   !.smaller = d.smallnum,
                   !.smallnum = MagicInt(d.smallidx + 1) \div 2]
    ELSE d

\* What makes the adaptation panic: smallidx leaves the table, or
\* assert_ne!(MAGICINTS[smallidx], 0) fails.
AdaptPanics(d, is_smaller) ==
    \/ is_smaller < 0 /\ d.smallidx = 0
    \/ is_smaller > 0 /\ d.smallidx + 1 >= Len(MAGICINTS)
    \/ is_smaller < 0 /\ d.smallidx > 0 /\ MagicInt(d.smallidx - 1) = 0
    \/ is_smaller = 0 /\ MagicInt(d.smallidx) = 0

\* Mutant: a clear flag resets run.
DecodeFlag_reset(buf, st, run) ==
    Bind(DecodeBits(buf, st, 1), LAMBDA fl :
        IF fl.num > 0
        THEN Bind(DecodeBits(buf, fl.st, 5), LAMBDA rn :
                  [st |-> rn.st, run |-> rn.num - (rn.num % 3),
                   is_smaller |-> (rn.num % 3) - 1, flag |-> 1])
        ELSE [st |-> fl.st, run |-> 0, is_smaller |-> 0, flag |-> 0])

\* The flag bit and, when it is set, the five bits of run: what they leave
\* in the DecodeState, run and is_smaller.  run keeps its value when the
\* flag is clear.
DecodeFlag(buf, st, run) ==
    Bind(DecodeBits(buf, st, 1), LAMBDA fl :
        IF fl.num > 0
        THEN Bind(DecodeBits(buf, fl.st, 5), LAMBDA rn :
                  [st |-> rn.st, run |-> rn.num - (rn.num % 3),
                   is_smaller |-> (rn.num % 3) - 1, flag |-> 1])
        ELSE [st |-> fl.st, run |-> run, is_smaller |-> 0, flag |-> 0])

\* Mutant: the main loop does not count the atom it has just read.
NextReadIdx_stay(read_idx) == read_idx

\* `read_idx += 1` at the end of an iteration of the main loop.
NextReadIdx(read_idx) == read_idx + 1

\* The end of an iteration whose locals are r: the adaptation, the assert
\* and read_idx += 1, or the return and the panics met on the way.
EndIteration(d, h, r) ==
    IF r.exit = "panic"
    THEN [dec |-> d, pos |-> r.pos, exit |-> "panic", cause |-> "slot"]
    ELSE IF r.st.panic
    THEN [dec |-> d, pos |-> r.pos, exit |-> "panic", cause |-> "decode"]
    ELSE IF r.exit = "return"
    THEN [dec |-> [d EXCEPT !.st = r.st, !.run = h.run, !.read_idx = r.read_idx,
                            !.write_idx = r.write_idx, !.flag = h.flag,
                            !.start_idx = d.write_idx],
          pos |-> r.pos, exit |-> "return", cause |-> "none"]
    ELSE IF AdaptPanics(d, h.is_smaller)
    THEN [dec |-> d, pos |-> r.pos, exit |-> "panic", cause |-> "magicint"]
    ELSE [dec |-> [Adapt(d, h.is_smaller) EXCEPT !.st = r.st, !.run = h.run,
                                                 !.sizesmall =
                                                     Fill3(MagicInt(Adapt(d, h.is_smaller).smallidx)),
                                                 !.read_idx = NextReadIdx(r.read_idx),
                                                 !.write_idx = r.write_idx,
                                                 !.flag = h.flag,
                                                 !.start_idx = d.write_idx],
          pos |-> r.pos, exit |-> "next", cause |-> "none"]

\* Mutant: a run that reaches beyond the positions buffer panics.
RunGuard_panic(write_idx, run, n) ==
    IF write_idx * 3 + run > n THEN "panic" ELSE "none"

\* `if write_idx * 3 + run as usize > n { }`: the test at the head of a run
\* has an empty body, so the run is entered either way.
RunGuard(write_idx, run, n) ==
    IF write_idx * 3 + run > n THEN "none" ELSE "none"

\* One iteration of `while read_idx < natoms`: the locals d, the positions
\* and how the iteration ends ("next", "return" or "panic").
Iterate(fr, sel, pos, d) ==
    Bind(NthSlot(Len(pos), d.write_idx), LAMBDA slot :
        IF ~slot.some
        THEN [dec |-> d, pos |-> pos, exit |-> "panic", cause |-> "slot"]
        ELSE
        Bind(CalcSizeInt(fr.minint, fr.maxint), LAMBDA cs :
        Bind(DecodeCoord(fr.payload, d.st, cs), LAMBDA c0 :
        Bind(<<c0.nums[1] + fr.minint[1], c0.nums[2] + fr.minint[2],
               c0.nums[3] + fr.minint[3]>>, LAMBDA coord :
        Bind(DecodeFlag(fr.payload, c0.st, d.run), LAMBDA h :
        Bind([st |-> h.st, coord |-> coord, prevcoord |-> coord,
              read_idx |-> d.read_idx, write_idx |-> d.write_idx,
              slot |-> slot.val, pos |-> pos, exit |-> "none"], LAMBDA r0 :
        Bind([buf |-> fr.payload, precision |-> fr.precision, sel |-> sel,
              smallidx |-> d.smallidx, smallnum |-> d.smallnum,
              sizesmall |-> d.sizesmall, run |-> h.run],
             LAMBDA c :
        Bind(IF h.run > 0
             THEN Bind([r0 EXCEPT !.coord = <<0, 0, 0>>,
                                  !.exit = RunGuard(d.write_idx, h.run, 3 * Len(pos))],
                       LAMBDA z : RunLoop(c, 0, z))
             ELSE WritePosition(r0, sel, coord, fr.precision),
             LAMBDA r1 : EndIteration(d, h, r1)))))))))

\* What makes the head of read_compressed_positions panic:
\* assert!(smallidx < MAGICINTS.len()) and smallidx - 1.
EnterPanics(fr) == fr.smallidx >= Len(MAGICINTS) \/ fr.smallidx = 0

\* The locals at the first iteration.
EnterDec(fr) ==
    [st |-> NewDecodeState, run |-> 0, smallidx |-> fr.smallidx,
     smaller |-> MagicInt(Max(FIRSTIDX, fr.smallidx - 1)) \div 2,
     smallnum |-> MagicInt(fr.smallidx) \div 2,
     sizesmall |-> Fill3(MagicInt(fr.smallidx)),
     read_idx |-> 0, write_idx |-> 0, flag |-> 0, start_idx |-> 0]

\* read_compressed_positions up to its main loop.
Enter ==
    /\ dstatus = "call"
    /\ IF EnterPanics(xframe)
       THEN dstatus' = "panic" /\ dcause' = "smallidx" /\ UNCHANGED dec
       ELSE dstatus' = "running" /\ dec' = EnterDec(xframe) /\ UNCHANGED dcause
    /\ UNCHANGED <<xframe, dsel, positions, dphase, refpos>>
    /\ UNCHANGED <<selVars, bufVars, drvVars, rdVars, bitVars>>

\* One iteration of the main loop.
DecodeStep ==
    /\ dstatus = "running"
    /\ dec.read_idx < Len(positions)
    /\ \E it \in {Iterate(xframe, dsel, positions, dec)} :
           /\ positions' = it.pos
           /\ dec' = it.dec
           /\ dstatus' = CASE it.exit = "next" -> "running"
                           [] it.exit = "return" -> "ok"
                           [] it.exit = "panic" -> "panic"
           /\ dcause' = it.cause
    /\ UNCHANGED <<xframe, dsel, dphase, refpos>>
    /\ UNCHANGED <<selVars, bufVars, drvVars, rdVars, bitVars>>

\* The main loop ends: Ok(()).
DecodeReturn ==
    /\ dstatus = "running"
    /\ dec.read_idx >= Len(positions)
    /\ dstatus' = "ok"
    /\ UNCHANGED <<xframe, dsel, positions, dec, dphase, refpos, dcause>>
    /\ UNCHANGED <<selVars, bufVars, drvVars, rdVars, bitVars>>

\* The same frame is read again under a selection, into a buffer of nbuf
\* atoms.
CallSelected(sel, nbuf) ==
    /\ dphase = "ref"
    /\ dstatus = "ok"
    /\ refpos' = positions
    /\ dphase' = "sel"
    /\ dsel' = sel
    /\ positions' = [i \in 1..nbuf |-> Stale]
    /\ dec' = NoDec
    /\ dstatus' = "call"
    /\ UNCHANGED <<xframe, dcause>>
    /\ UNCHANGED <<selVars, bufVars, drvVars, rdVars, bitVars>>

----------------------------------------------------------------------------
(* SpecDec: a frame is decoded with AtomSelection::All, then again under a *)
(* selection.                                                              *)

\* The bytes a payload is drawn from: at the bit offsets the decoder meets
\* them they give single atoms, run headers of one and of several steps with
\* each adaptation of smallidx, and small triplets.
ByteVals == {0, 75, 166}

\* The payload as read_opaque leaves it in the scratch buffer: count bytes
\* and the padding, which a well-formed file holds as zeros.
Opaque(bytes) == bytes \o [i \in 1..Padding(Len(bytes)) |-> 0]

\* The selections of the second call with the buffers they are read into:
\* Until(k) into k atoms, a Mask into as many atoms as it selects or into a
\* buffer for every atom.
SelectedCalls ==
    {<<AtomUntil(k), k>> : k \in 0..FrameAtoms}
    \cup {<<AtomMask(m), SelectedAtoms(AtomMask(m), FrameAtoms)>> :
            m \in SeqsUpTo(BOOLEAN, MaxMaskLen)}
    \cup {<<AtomMask(m), FrameAtoms>> : m \in SeqsUpTo(BOOLEAN, MaxMaskLen)}

InitDec ==
    /\ IdleRd
    /\ IdleBits
    /\ IdleSel
    /\ IdleBuf
    /\ IdleDrv
    /\ \E bytes \in [1..PayloadLen -> ByteVals],
          maxint \in {<<0, 0, 0>>, <<1, 1, 0>>},
          smallidx \in {FIRSTIDX - 1, FIRSTIDX, FIRSTIDX + 1, Len(MAGICINTS)} :
          xframe = [natoms |-> FrameAtoms, precision |-> 1000,
                    minint |-> <<0, 0, 0>>, maxint |-> maxint,
                    smallidx |-> smallidx, payload |-> Opaque(bytes)]
    /\ dsel = AtomAll
    /\ positions = [i \in 1..FrameAtoms |-> Stale]
    /\ dec = NoDec
    /\ dstatus = "call"
    /\ dphase = "ref"
    /\ refpos = <<>>
    /\ dcause = "none"

NextDec ==
    \/ Enter
    \/ DecodeStep
    \/ DecodeReturn
    \/ \E call \in SelectedCalls : CallSelected(call[1], call[2])

SpecDec == InitDec /\ [][NextDec]_vars

----------------------------------------------------------------------------
(* XTCReader over a whole file (src/src/lib.rs).                           *)
(*                                                                         *)
(* Every field of an xtc file is a multiple of four bytes long, so the     *)
(* file is a sequence of 4-byte words and a position counts words.  A read *)
(* of k words at a position with fewer than k words left is read_exact     *)
(* failing with UnexpectedEof, which leaves the stream at the end of the   *)
(* file.  The payload of a compressed frame is taken to be well formed:    *)
(* decoding it is the subject of SpecDec.                                  *)

\* Longest trajectory, in frames.
MaxRdFrames == 2
\* Most read_frame calls between two home() calls.
MaxCalls == 5
\* Most home() calls.
MaxHomes == 1
\* natoms of the frames stored uncompressed (natoms <= 9).
SmallAtoms == 2
\* natoms of the frames stored compressed.
CompAtoms == 10
\* Byte count of a compressed frame's payload.
CompBytes == 5

MAGIC == 1995

\* The fourteen words of a frame header: magic, natoms, step, time, the
\* nine floats of the box, natoms again.
HeaderWords(magic, natoms, step, natoms_repeated) ==
    <<magic, natoms, step, 0>> \o [i \in 1..9 |-> 0] \o <<natoms_repeated>>

\* The words that follow the header of a frame with natoms <= 9.
SmallBody(natoms) == [i \in 1..(3 * natoms) |-> 1]

\* The words that follow the header of a compressed frame: precision,
\* minint, maxint, smallidx, then the opaque payload (count, padded bytes).
CompBody(smallidx, count) ==
    <<1000, 0, 0, 0, 1, 1, 0, smallidx, count>>
        \o [i \in 1..((count + Padding(count)) \div 4) |-> 0]

FrameKinds == {"small", "comp", "badmagic", "negnatoms", "mismatch", "badidx"}

\* The words of frame number i of the given kind.
FrameWords(kind, i) ==
    CASE kind = "small" ->
           HeaderWords(MAGIC, SmallAtoms, i, SmallAtoms) \o SmallBody(SmallAtoms)
      [] kind = "comp" ->
           HeaderWords(MAGIC, CompAtoms, i, CompAtoms) \o CompBody(FIRSTIDX, CompBytes)
      [] kind = "badmagic" ->
           HeaderWords(MAGIC + 1, SmallAtoms, i, SmallAtoms) \o SmallBody(SmallAtoms)
      [] kind = "negnatoms" ->
           HeaderWords(MAGIC, -1, i, -1)
      [] kind = "mismatch" ->
           HeaderWords(MAGIC, SmallAtoms, i, SmallAtoms + 1) \o SmallBody(SmallAtoms)
      [] kind = "badidx" ->
           HeaderWords(MAGIC, CompAtoms, i, CompAtoms)
               \o CompBody(Len(MAGICINTS), CompBytes)

RECURSIVE FileOf(_, _)
FileOf(kinds, i) ==
    IF i > Len(kinds) THEN <<>>
    ELSE FrameWords(kinds[i], i - 1) \o FileOf(kinds, i + 1)

\* The file with its last cut words missing.
Truncate(file, cut) == SubSeq(file, 1, Max(0, Len(file) - cut))

\* How many words a file loses: none, one (inside the last frame's body),
\* ten (inside the last frame's header or just after it).
Cuts == {0, 1, 10}

\* self.step after a call (lib.rs line 62: only a successful call counts).
StepAfter_always(res, step) == step + 1
StepAfter(res, step) == IF res = "ok" THEN step + 1 ELSE step

\* read_frame started at word position pos of file (lib.rs lines 35-70).
\* res is "ok", "eof" (Err of kind UnexpectedEof) or "panic" (a failed
\* assert_eq! or unwrap); cause names the statement that ended the call.
ReadFrameAt(file, pos) ==
    LET left == Len(file) - pos
        W(k) == file[pos + k]
        Eof(c) == [res |-> "eof", pos |-> Max(pos, Len(file)), cause |-> c]
        Panic(c, k) == [res |-> "panic", pos |-> pos + k, cause |-> c]
        Ok(k) == [res |-> "ok", pos |-> pos + k, cause |-> "none"]
    IN  CASE left < 1 -> Eof("magic")
          [] left >= 1 /\ W(1) # MAGIC -> Panic("magic", 1)
          [] left = 1 /\ W(1) = MAGIC -> Eof("header")
          [] left >= 2 /\ W(1) = MAGIC /\ W(2) < 0 -> Panic("natoms", 2)
          [] left = 2 /\ W(1) = MAGIC /\ W(2) >= 0 -> Eof("header")
          [] left >= 3 /\ W(1) = MAGIC /\ W(2) >= 0 /\ W(3) < 0 -> Panic("step", 3)
          [] left \in 3..13 /\ W(1) = MAGIC /\ W(2) >= 0 /\ W(3) >= 0 -> Eof("header")
          [] left >= 14 /\ W(1) = MAGIC /\ W(2) >= 0 /\ W(3) >= 0 ->
               IF W(14) < 0 THEN Panic("natoms_repeated", 14)
               ELSE IF W(2) # W(14) THEN Panic("natoms_repeated", 14)
               ELSE IF W(2) <= 9
                    THEN IF left < 14 + 3 * W(2) THEN Eof("positions")
                         ELSE Ok(14 + 3 * W(2))
               ELSE IF left < 22 THEN Eof("positions")
               ELSE IF W(22) >= Len(MAGICINTS) \/ W(22) = 0 THEN Panic("smallidx", 22)
               ELSE IF left < 23 THEN Eof("positions")
               ELSE IF left < 23 + (W(23) + Padding(W(23))) \div 4 THEN Eof("positions")
               ELSE Ok(23 + (W(23) + Padding(W(23))) \div 4)

\* XTCReader::new (lib.rs lines 30-33): position 0, step 0.
NewReader(file) ==
    /\ rfile = file
    /\ rpos = 0
    /\ rstep = 0
    /\ rres = "none"
    /\ rstart = 0
    /\ delivered = <<>>
    /\ rcalls = 0
    /\ rhomes = 0
    /\ roffs = NoOffs

\* One call of read_frame.  A panic ends the program; where a failed
\* determine_offsets leaves the stream is not modelled.
ReadFrame ==
    /\ rres # "panic"
    /\ roffs.res \in {"none", "ok"}
    /\ rcalls < MaxCalls
    /\ \E r \in {ReadFrameAt(rfile, rpos)} :
          /\ rpos' = r.pos
          /\ rres' = r.res
          /\ rstep' = StepAfter(r.res, rstep)
          /\ delivered' = IF r.res = "ok"
                          THEN Append(delivered, SubSeq(rfile, rpos + 1, r.pos))
                          ELSE delivered
    /\ rstart' = rpos
    /\ rcalls' = rcalls + 1
    /\ UNCHANGED <<rfile, rhomes, roffs>>
    /\ UNCHANGED <<selVars, bufVars, drvVars, decVars, bitVars>>

\* Where home() leaves the stream.
HomePos_stay(pos) == pos
HomePos(pos) == 0

\* home(): seek to byte 0 and reset step.
Home ==
    /\ rres # "panic"
    /\ roffs.res \in {"none", "ok"}
    /\ rhomes < MaxHomes
    /\ rpos' = HomePos(rpos)
    /\ rstep' = 0
    /\ rres' = "none"
    /\ rstart' = 0
    /\ delivered' = <<>>
    /\ rcalls' = 0
    /\ rhomes' = rhomes + 1
    /\ UNCHANGED <<rfile, roffs>>
    /\ UNCHANGED <<selVars, bufVars, drvVars, decVars, bitVars>>

\* determine_offsets_exclusive(until), from word position pos with the
\* offsets acc found so far: read the magic (end of file: stop; another
\* value: fail), seek 84 bytes on, read the byte count, seek over the padded
\* payload, record the position.  A seek beyond the end of a file succeeds;
\* the read that follows it fails.  until < 0 stands for None.
RECURSIVE ScanOffsets(_, _, _, _)
ScanOffsets(file, pos, acc, until) ==
    IF until >= 0 /\ Len(acc) >= until THEN [res |-> "ok", offs |-> acc]
    ELSE IF pos >= Len(file) THEN [res |-> "ok", offs |-> acc]
    ELSE IF file[pos + 1] # MAGIC THEN [res |-> "error", offs |-> acc]
    ELSE IF pos + 1 + 21 >= Len(file) THEN [res |-> "eof", offs |-> acc]
    ELSE LET skip == file[pos + 1 + 21 + 1]
             next == pos + 1 + 21 + 1 + (skip + Padding(skip)) \div 4
         IN  ScanOffsets(file, next, Append(acc, 4 * next), until)

\* determine_offsets(until): [0] ++ exclusive[..len - 1], in bytes.
DetermineOffsetsOf(file, until) ==
    LET ex == ScanOffsets(file, 0, <<>>, until)
    IN  [res |-> ex.res,
         until |-> until,
         offs |-> IF ex.res = "ok"
                  THEN <<0>> \o SubSeq(ex.offs, 1, Len(ex.offs) - 1)
                  ELSE <<>>]

\* determine_offsets called on a reader that was just opened, as main.rs
\* (line 128) and the Python binding (lines 126-128, 264) call it.
DetermineOffsetsCall ==
    /\ roffs = NoOffs
    /\ rpos = 0
    /\ rcalls = 0
    /\ rhomes = 0
    /\ Len(rfile) > 0
    /\ \E until \in {-1} \cup (1..(MaxRdFrames + 1)) :
          roffs' = DetermineOffsetsOf(rfile, until)
    /\ UNCHANGED <<rfile, rpos, rstep, rres, rstart, delivered, rcalls, rhomes>>
    /\ UNCHANGED <<selVars, bufVars, drvVars, decVars, bitVars>>

RdFiles ==
    {Truncate(FileOf(kinds, 1), cut) :
        kinds \in SeqsUpTo(FrameKinds, MaxRdFrames), cut \in Cuts}

InitRd ==
    /\ IdleBits
    /\ IdleSel
    /\ IdleBuf
    /\ IdleDrv
    /\ IdleDec
    /\ \E file \in RdFiles : NewReader(file)

NextRd ==
    \/ ReadFrame
    \/ Home
    \/ DetermineOffsetsCall

SpecRd == InitRd /\ [][NextRd]_vars

----------------------------------------------------------------------------
(* The bit reader at the source's widths.  A u32 or u64 is the sequence of *)
(* its bits, least significant first, so that shifts drop the bits they    *)
(* push out and no value is cut to the model checker's integers.           *)

\* x as a w-bit value, for 0 <= x < 2^31.
BvOfNat(x, w) ==
    [i \in 1..w |-> IF i <= 31 THEN (x \div Pow2(i - 1)) % 2 ELSE 0]

\* The number a bit sequence stands for, when it is below 2^31.
RECURSIVE BvSum(_, _)
BvSum(x, i) == IF i > Len(x) THEN 0 ELSE x[i] + 2 * BvSum(x, i + 1)

BvToNat(x) ==
    CASE \A i \in 32..Len(x) : x[i] = 0 ->
        BvSum([i \in 1..Min(31, Len(x)) |-> x[i]], 1)

\* x << n and x >> n for n below the width, x | y, x & y.
BvShl(x, n) == [i \in 1..Len(x) |-> IF i > n THEN x[i - n] ELSE 0]

BvShr(x, n) == [i \in 1..Len(x) |-> IF i + n <= Len(x) THEN x[i + n] ELSE 0]

BvOr(x, y) == [i \in 1..Len(x) |-> Max(x[i], y[i])]

BvAnd(x, y) == [i \in 1..Len(x) |-> x[i] * y[i]]

\* x - 1, for x > 0.
BvDec(x) ==
    [i \in 1..Len(x) |-> IF \A j \in 1..(i - 1) : x[j] = 0 THEN 1 - x[i] ELSE x[i]]

\* `1 << nbits` on u32.  A shift by the width or more is an overflow: a
\* debug build panics, a release build shifts by nbits mod 32.
ShiftOverflows(nbits) == nbits >= 32

\* let mask = (1 << nbits) - 1;
MaskOf(nbits) == BvDec(BvShl(BvOfNat(1, 32), nbits % 32))

\* Mutant: the left-over bits take a new byte also when the bits held
\* suffice.
NeedsByte_eager(lastbits, nbits) == lastbits <= nbits

\* `if lastbits < nbits` of decodebits.
NeedsByte(lastbits, nbits) == lastbits < nbits

\* lastbyte = (lastbyte << 8) | buf[count] as u32; count += 1, lastbyte
\* being a u32.
PushByte32(buf, s) ==
    [s EXCEPT !.lastbyte = BvOr(BvShl(s.lastbyte, 8),
                                BvOfNat(IF s.count < Len(buf) THEN buf[s.count + 1] ELSE 0, 32)),
              !.count = s.count + 1,
              !.panic = s.panic \/ s.count >= Len(buf)]

\* while nbits >= 8 { ... } of decodebits, on u32.
RECURSIVE DecodeWhole32(_, _)
DecodeWhole32(buf, s) ==
    IF s.nbits >= 8
    THEN Bind(PushByte32(buf, s), LAMBDA p :
         Bind([p EXCEPT !.num = BvOr(p.num, BvShl(BvShr(p.lastbyte, p.lastbits),
                                                  p.nbits - 8)),
                        !.nbits = p.nbits - 8],
              LAMBDA q : DecodeWhole32(buf, q)))
    ELSE s

\* if nbits > 0 { ... } of decodebits, on u32.
DecodeRest32(buf, s, mask) ==
    IF s.nbits > 0
    THEN Bind(IF NeedsByte(s.lastbits, s.nbits)
              THEN [PushByte32(buf, s) EXCEPT !.lastbits = s.lastbits + 8]
              ELSE s,
              LAMBDA p :
                LET lastbits == p.lastbits - p.nbits
                IN  [p EXCEPT !.lastbits = lastbits,
                              !.num = BvOr(p.num, BvAnd(BvShr(p.lastbyte, lastbits), mask))])
    ELSE s

\* decodebits(buf, state, nbits) with its u32 locals, in the given build:
\* the value as a u32, the DecodeState left, and whether `1 << nbits`
\* panicked.
DecodeBits32(buf, st, nbits, bld) ==
    IF ShiftOverflows(nbits) /\ bld = "debug"
    THEN [num |-> Zero32, st |-> st, overflow |-> TRUE]
    ELSE
    Bind(MaskOf(nbits), LAMBDA mask :
    Bind([count |-> st.count, lastbits |-> st.lastbits,
          lastbyte |-> BvOfNat(st.lastbyte, 32), panic |-> st.panic,
          num |-> Zero32, nbits |-> nbits], LAMBDA s0 :
    Bind(DecodeWhole32(buf, s0), LAMBDA s1 :
    Bind(DecodeRest32(buf, s1, mask), LAMBDA s2 :
         [num |-> BvAnd(s2.num, mask),
          st |-> [count |-> s2.count, lastbits |-> s2.lastbits,
                  lastbyte |-> BvToNat(BvAnd(s2.lastbyte, BvOfNat(255, 32))),
                  panic |-> s2.panic],
          overflow |-> FALSE]))))

\* A call of decodebits(buf, state, nbits) for bits the stream still holds.
ReadBits(nbits) ==
    /\ bitstatus = "ready"
    /\ bitsread + nbits <= 8 * Len(bitbuf)
    /\ \E r \in {DecodeBits32(bitbuf, bitstate, nbits, build)} :
          IF r.overflow \/ r.st.panic
          THEN /\ bitstatus' = "panic"
               /\ UNCHANGED <<bitstate, bitsread, lastread>>
          ELSE /\ bitstate' = r.st
               /\ bitsread' = bitsread + nbits
               /\ lastread' = [kind |-> "bits", nbits |-> nbits, start |-> bitsread,
                               num |-> r.num, nums |-> <<0, 0, 0>>]
               /\ UNCHANGED bitstatus
    /\ UNCHANGED <<build, bitbuf, planted>>
    /\ UNCHANGED <<selVars, bufVars, drvVars, decVars, rdVars>>

\* A call of decodeints at the bit the packed triple starts at, on a nums
\* that holds prior.
ReadTriplet(prior) ==
    /\ bitstatus = "ready"
    /\ planted # NoPlant
    /\ lastread.kind # "ints"
    /\ bitsread = planted.off
    /\ \E r \in {DecodeIntsInto(bitbuf, bitstate, planted.nbits, planted.sizes, prior)} :
          IF r.st.panic
          THEN /\ bitstatus' = "panic"
               /\ UNCHANGED <<bitstate, bitsread, lastread>>
          ELSE /\ bitstate' = r.st
               /\ bitsread' = bitsread + planted.nbits
               /\ lastread' = [kind |-> "ints", nbits |-> planted.nbits,
                               start |-> bitsread, num |-> Zero32, nums |-> r.nums]
               /\ UNCHANGED bitstatus
    /\ UNCHANGED <<build, bitbuf, planted>>
    /\ UNCHANGED <<selVars, bufVars, drvVars, decVars, rdVars>>

----------------------------------------------------------------------------
(* SpecBits: calls of decodebits on a bit stream, in either build, and of  *)
(* decodeints on a stream that holds a packed triple.                      *)

\* The bytes of x, least significant first.
RECURSIVE NatDigits(_)
NatDigits(x) == IF x < 256 THEN <<x>> ELSE <<x % 256>> \o NatDigits(x \div 256)

\* bytes + a, on bytes least significant first.
RECURSIVE AddDigits(_, _, _)
AddDigits(bytes, a, i) ==
    IF a = 0 THEN bytes
    ELSE IF i > Len(bytes) THEN CarryOut(bytes, a)
    ELSE Bind(bytes[i] + a, LAMBDA t :
              AddDigits([bytes EXCEPT ![i] = t % 256], t \div 256, i + 1))

\* The packed value of a triple, (x * sy + y) * sz + z, as its bytes.
PackTriplet(sizes, nums) ==
    Bind(AddDigits(MulBytes(NatDigits(nums[1]), sizes[2]), nums[2], 1), LAMBDA xy :
         AddDigits(MulBytes(xy, sizes[3]), nums[3], 1))

\* The n low bits of a byte, highest first.
DigitBits(d, n) == [i \in 1..n |-> (d \div Pow2(n - i)) % 2]

\* The bits decodeints reads for a value of nbits bits: its whole bytes
\* from the lowest up, then the bits left over of the top byte.
RECURSIVE WholeByteBits(_, _, _)
WholeByteBits(bytes, i, n) ==
    IF i > n THEN <<>> ELSE DigitBits(bytes[i], 8) \o WholeByteBits(bytes, i + 1, n)

ValueBits(bytes, nbits) ==
    LET n == nbits \div 8
        padded == [i \in 1..(n + 1) |-> IF i <= Len(bytes) THEN bytes[i] ELSE 0]
    IN  CASE (\A i \in 1..Len(bytes) : i > n + 1 => bytes[i] = 0)
             /\ padded[n + 1] < Pow2(nbits % 8) ->
            WholeByteBits(padded, 1, n) \o DigitBits(padded[n + 1], nbits % 8)

\* Bits, highest first, as the bytes of a stream, the last byte filled up
\* with zeros.
PackBits(bits) ==
    [b \in 1..((Len(bits) + 7) \div 8) |->
        LET bit(j) == IF 8 * (b - 1) + j <= Len(bits) THEN bits[8 * (b - 1) + j] ELSE 0
        IN  128 * bit(1) + 64 * bit(2) + 32 * bit(3) + 16 * bit(4)
            + 8 * bit(5) + 4 * bit(6) + 2 * bit(7) + bit(8)]

\* The stream that holds a packed triple after off other bits.
PlantedBuf(plant) ==
    PackBits([i \in 1..plant.off |-> i % 2]
             \o ValueBits(PackTriplet(plant.sizes, plant.nums), plant.nbits))

\* The sizes decodeints is called with and their nbits: small triplets of
\* size MAGICINTS[smallidx] with nbits = smallidx, and the sizeint of a
\* frame with its sizeofints.
PlantIdx == {9, 32, 33, 66}

PlantSizeint == {<<37, 101, 3>>, <<65536, 2048, 2048>>, <<5000000, 6000000, 7000000>>}

PlantCalls ==
    {[sizes |-> Fill3(MagicInt(s)), nbits |-> s] : s \in PlantIdx}
    \cup {[sizes |-> z, nbits |-> SizeOfInts(z)] : z \in PlantSizeint}

\* The triples packed: the corners of the sizes' range, after off bits read
\* by an earlier call.
PlantsOf(c, off) ==
    {[sizes |-> c.sizes, nbits |-> c.nbits, off |-> off, nums |-> <<x, y, z>>] :
        x \in {0, c.sizes[1] - 1}, y \in {0, 1, c.sizes[2] - 1},
        z \in {0, 1, c.sizes[3] - 1}}

Plants == UNION {PlantsOf(c, off) : c \in PlantCalls, off \in {0, 3}}

\* What nums may hold when decodeints is called.
PriorNums == {<<0, 0, 0>>, <<5, 6, 7>>}

\* The bytes a bit stream is drawn from.
BitVals == {75, 166}

\* The widths asked of decodebits.
BitWidths == {0, 1, 5, 8, 13, 24, 31, 32}

InitBits ==
    /\ IdleRd
    /\ IdleSel
    /\ IdleBuf
    /\ IdleDrv
    /\ IdleDec
    /\ build \in {"debug", "release"}
    /\ \/ /\ bitbuf \in [1..BitBytes -> BitVals]
          /\ planted = NoPlant
       \/ \E plant \in Plants :
             /\ bitbuf = PlantedBuf(plant)
             /\ planted = plant
    /\ bitstate = NewDecodeState
    /\ bitsread = 0
    /\ lastread = NoRead
    /\ bitstatus = "ready"

\* The call of decodebits that reads the bits before a packed triple.
SkipBits ==
    /\ planted # NoPlant
    /\ bitsread = 0
    /\ planted.off > 0
    /\ ReadBits(planted.off)

NextBits ==
    \/ planted = NoPlant /\ \E nbits \in BitWidths : ReadBits(nbits)
    \/ SkipBits
    \/ \E prior \in PriorNums : ReadTriplet(prior)

SpecBits == InitBits /\ [][NextBits]_vars

----------------------------------------------------------------------------
(* Claims about the selectors, checked under SpecSel.                      *)

\* What the claim C6 says Range::is_included returns.
RangeAsClaimed(range, idx) ==
    IF range.end.some /\ range.end.val <= idx THEN NoneV
    ELSE Some(range.start <= idx /\ (idx - range.start) % range.step = 0)

\* C6: Range{start, end, step}.is_included(idx) is None when end is Some(e)
\* and idx >= e, and otherwise Some(start <= idx and (idx - start) mod step
\* = 0).
C6_RangeStepsFromStart ==
    (skind = "frame" /\ fsel.tag = "Range") =>
        \A q \in qlog : q.res = RangeAsClaimed(fsel.range, q.idx)

C10_FrameListAnyOrder ==
    (skind = "frame" /\ fsel.tag = "FrameList" /\ Len(fsel.list) > 0) =>
        \A q \in qlog :
            q.res = (IF q.idx <= SeqMax(fsel.list)
                     THEN Some(SeqContains(fsel.list, q.idx))
                     ELSE NoneV)

----------------------------------------------------------------------------
(* Claims about the byte-fetch buffers, checked under SpecBuf.             *)

\* C3: over the same payload and the same fetch calls, Buffer and UnBuffered
\* return the same byte for every fetch and the same tell().
C3_SameBytes ==
    (bpc \in {"ready", "finished"} /\ upc \in {"ready", "finished"}) =>
        (bret = uret /\ BufTell = UnTell)

\* A payload too large to be read eagerly, of which a byte beyond the first
\* block was fetched while the tail is still unread.
C3_Witness ==
    /\ bpc = "ready"
    /\ upc = "ready"
    /\ BufSize > MIN_BUFFERED_SIZE
    /\ bret >= 0
    /\ bhead >= BLOCK_SIZE
    /\ bidx < BufSize
    /\ scratch0 # <<>>

\* C4: after finish() the reader stands at start + 4 + n + padding4(n), for
\* Buffer (whatever it had read) and for UnBuffered.
C4_FinishAtNextFrame ==
    /\ bpc = "finished" => bpos = 4 + fcount + Padding(fcount)
    /\ upc = "finished" => upos = 4 + fcount + Padding(fcount)

\* Both buffers finished after a decode that stopped early: Buffer had read
\* only part of a padded payload.
C4_Witness ==
    /\ bpc = "finished"
    /\ upc = "finished"
    /\ bhead > 0
    /\ bidx < fcount
    /\ Padding(fcount) > 0

----------------------------------------------------------------------------
(* Claims about the decoder, checked under SpecDec.                        *)

\* C1: decoding a frame with Until(k), k <= natoms, into a buffer of k atoms
\* succeeds whenever decoding it with All does, writes exactly k positions,
\* and they are the first k positions the decode with All wrote, also when
\* the buffer fills inside a run.
C1_UntilIsPrefixOfAll ==
    (/\ dphase = "sel"
     /\ dstatus \in {"ok", "panic"}
     /\ dsel.tag = "Until"
     /\ Len(positions) = dsel.until) =>
        /\ dstatus = "ok"
        /\ dec.write_idx = dsel.until
        /\ \A i \in 1..dsel.until : positions[i] = refpos[i] /\ positions[i] # Stale

\* A decode with Until(k), 0 < k < natoms, ended inside a run, between the two
\* writes of the water swap: the swapped atom was the k-th position and the
\* atom that heads the run was read but found no slot.
C1_Witness ==
    /\ dphase = "sel"
    /\ dstatus = "ok"
    /\ dsel.tag = "Until"
    /\ Len(positions) = dsel.until
    /\ dsel.until > 0
    /\ dsel.until < xframe.natoms
    /\ dec.run > 0
    /\ dec.read_idx > dec.write_idx

\* The encoded atoms a mask selects in a frame of n atoms.
MaskSelected(m, n) == {i \in 0..(Min(n, Len(m)) - 1) : m[i + 1]}

\* The j-th smallest member of S.
NthOf(S, j) == CHOOSE i \in S : Cardinality({x \in S : x < i}) = j - 1

\* C2: decoding a frame with Mask(m) writes exactly the positions of the
\* encoded atoms i < natoms with m[i] true, in ascending order of i: as many
\* positions as m has true entries below natoms, the j-th of them being the
\* position of the j-th selected atom.
C2_MaskWritesSelected ==
    (/\ dphase = "sel"
     /\ dstatus \in {"ok", "panic"}
     /\ dsel.tag = "Mask") =>
        LET S == MaskSelected(dsel.mask, xframe.natoms)
        IN  /\ dstatus = "ok"
            /\ dec.write_idx = Cardinality(S)
            /\ \A j \in 1..Cardinality(S) : positions[j] = refpos[NthOf(S, j) + 1]

----------------------------------------------------------------------------
(* Claims about the drivers, checked under SpecDrv.                        *)

\* The indices of the trajectory the frame selection includes.
IncludedFrames ==
    {i \in 0..(Len(traj) - 1) : FrameIsIncluded(dfsel, i) = Some(TRUE)}

\* C5: a forward driver emits exactly the frames idx < N with
\* is_included(idx) = Some(true), each read at the offset of its header, in
\* ascending index order, whatever the atom selection; indices of the
\* selection beyond the trajectory are ignored.
C5_DriverEmitsIncluded ==
    (dpc = "done" /\ ~reversed) =>
        /\ {emitted[k].idx : k \in 1..Len(emitted)} = IncludedFrames
        /\ Len(emitted) = Cardinality(IncludedFrames)
        /\ \A k, l \in 1..Len(emitted) : k < l => emitted[k].idx < emitted[l].idx
        /\ \A k \in 1..Len(emitted) :
              emitted[k].offset = FrameOffset(traj, emitted[k].idx)

\* filter_frames went forward through a FrameList that also names a frame the
\* trajectory does not have, skipped the first frame and read a later one.
C5_Witness ==
    /\ dpc = "done"
    /\ drvkind = "filter_frames"
    /\ ~reversed
    /\ dasel.tag = "Until"
    /\ dfsel.tag = "FrameList"
    /\ \E i \in 1..Len(dfsel.list) : dfsel.list[i] >= Len(traj)
    /\ Len(emitted) >= 1
    /\ emitted[1].idx > 0
    /\ Len(emitted) < Len(traj)

----------------------------------------------------------------------------
(* Claims about XTCReader over a whole file, checked under SpecRd.         *)

\* C11: a read_frame call that starts with the stream at the end of the
\* file (the end of the last frame) returns UnexpectedEof, leaves step as it
\* was and leaves the stream where it was, so that every further call meets
\* the same situation until home() is called.
C11_EofKeepsStep ==
    [][(rcalls' = rcalls + 1 /\ rpos = Len(rfile))
          => (rres' = "eof" /\ rstep' = rstep /\ rpos' = rpos)]_vars

\* Two calls in a row failed at the end of a file whose frames were all read.
C11_Witness ==
    /\ rres = "eof"
    /\ rstart = Len(rfile)
    /\ Len(delivered) >= 1
    /\ rstep = Len(delivered)
    /\ rcalls >= Len(delivered) + 2

\* The frames a reader opened on file delivers, calling read_frame from
\* position pos until a call fails.
RECURSIVE PassFrom(_, _)
PassFrom(file, pos) ==
    LET r == ReadFrameAt(file, pos)
    IN  IF r.res = "ok"
        THEN <<SubSeq(file, pos + 1, r.pos)>> \o PassFrom(file, r.pos)
        ELSE <<>>

\* C12: whatever read_frame calls came before it, home() puts the reader
\* back at byte 0 with step 0: the pass that follows, once a call has failed,
\* has delivered the frames a fresh reader's first pass delivers, and step
\* counts them.
C12_HomeRestartsPass ==
    (rhomes > 0 /\ rres \in {"eof", "panic"})
        => (delivered = PassFrom(rfile, 0) /\ rstep = Len(delivered))

\* A pass of two frames or more was completed after a home().
C12_Witness ==
    /\ rhomes > 0
    /\ rres = "eof"
    /\ Len(delivered) >= 2
    /\ delivered[1] # delivered[2]

\* The byte offsets at which read_frame, called from position pos until it
\* fails, found a frame header.
RECURSIVE HeaderOffsets(_, _)
HeaderOffsets(file, pos) ==
    LET r == ReadFrameAt(file, pos)
    IN  IF r.res = "ok" THEN <<4 * pos>> \o HeaderOffsets(file, r.pos) ELSE <<>>

\* Where the first failing read_frame call of a pass from pos starts.
RECURSIVE PassEnd(_, _)
PassEnd(file, pos) ==
    LET r == ReadFrameAt(file, pos)
    IN  IF r.res = "ok" THEN PassEnd(file, r.pos) ELSE pos

\* The file is one or more whole frames and nothing else.
WholeFrames(file) == Len(file) > 0 /\ PassEnd(file, 0) = Len(file)

FirstN(s, n) == SubSeq(s, 1, Min(Len(s), n))

\* C13: on a file of N whole frames, compressed or not, determine_offsets
\* returns the N frame header offsets, strictly increasing, for until = None
\* and the first min(N, u) of them for until = Some(u).
C13_OffsetsAreHeaders ==
    (roffs.res # "none" /\ WholeFrames(rfile))
        => /\ roffs.res = "ok"
           /\ roffs.offs = IF roffs.until < 0
                           THEN HeaderOffsets(rfile, 0)
                           ELSE FirstN(HeaderOffsets(rfile, 0), roffs.until)
           /\ \A i \in 1..(Len(roffs.offs) - 1) : roffs.offs[i] < roffs.offs[i + 1]

\* The same statement for files whose frames are all compressed.
C13_CompressedOnly ==
    (\A i \in 1..Len(HeaderOffsets(rfile, 0)) :
         rfile[HeaderOffsets(rfile, 0)[i] \div 4 + 2] > 9)
        => C13_OffsetsAreHeaders

----------------------------------------------------------------------------
(* Further claims about the decoder, checked under SpecDec.                *)

\* C14: a corrupt stream, one whose smallidx is outside MAGICINTS or selects
\* a zero entry of it, at the start or after an adaptation, never aborts the
\* decode: no call ends in a panic raised by a check of smallidx.
C14_CorruptIsError ==
    dstatus = "panic" => dcause \notin {"smallidx", "magicint"}

\* A step that runs one iteration of the main loop to its end.
IterationDone ==
    /\ dstatus = "running"
    /\ dec.read_idx < Len(positions)
    /\ dstatus' \in {"running", "ok"}

Add3(a, b, k) == <<a[1] + b[1] - k, a[2] + b[2] - k, a[3] + b[3] - k>>

\* The first n atoms of a run in their encoded order: each is its small
\* triplet plus the atom decoded before it (the header coordinate prev for
\* the first) minus smallnum.
RECURSIVE RunAtoms(_, _, _, _, _, _)
RunAtoms(buf, st, smallidx, smallnum, prev, n) ==
    IF n = 0 THEN <<>>
    ELSE Bind(DecodeInts(buf, st, smallidx,
                         <<MagicInt(smallidx), MagicInt(smallidx), MagicInt(smallidx)>>),
              LAMBDA di :
         Bind(Add3(di.nums, prev, smallnum), LAMBDA atom :
              <<atom>> \o RunAtoms(buf, di.st, smallidx, smallnum, atom, n - 1)))

\* What the iteration that starts with the locals d emits, in order, when
\* its run is positive, cut to the first `written` atoms: the first run
\* atom, then the header coordinate, then the later run atoms.
RunEmission(fr, d, written) ==
    Bind(DecodeCoord(fr.payload, d.st, CalcSizeInt(fr.minint, fr.maxint)), LAMBDA c0 :
    Bind(Add3(c0.nums, fr.minint, 0), LAMBDA header :
    Bind(DecodeFlag(fr.payload, c0.st, d.run), LAMBDA h :
    Bind(RunAtoms(fr.payload, h.st, d.smallidx, d.smallnum, header,
                  IF written <= 1 THEN written ELSE written - 1), LAMBDA atoms :
         SubSeq(<<atoms[1], header>> \o Tail(atoms), 1, written)))))

\* C19: an iteration (read with AtomSelection::All) whose run is positive
\* writes, from slot write_idx on and as far as the buffer reaches, first the
\* first small-triplet atom (header + small delta - smallnum), then the
\* header coordinate, then the further run atoms in encoded order, each
\* relative to the run atom decoded before it.
C19_RunOrder ==
    [][(IterationDone /\ dphase = "ref" /\ dec'.run > 0)
          => LET written == Min(dec'.run \div 3 + 1, Len(positions) - dec.write_idx)
             IN  /\ dec'.write_idx = dec.write_idx + written
                 /\ \E em \in {RunEmission(xframe, dec, written)} :
                       \A i \in 1..written :
                          positions'[dec.write_idx + i] = ToPosition(em[i], xframe.precision)
                 /\ \A i \in 1..Len(positions) :
                       (i <= dec.write_idx \/ i > dec.write_idx + written)
                          => positions'[i] = positions[i]]_vars

\* The last iteration read a run header of two small triplets or more and
\* wrote three atoms, the first run atom, the header coordinate and the
\* second run atom, all different.
C19_Witness ==
    /\ dphase = "ref"
    /\ dstatus = "running"
    /\ dec.flag = 1
    /\ dec.run >= 6
    /\ dec.write_idx >= dec.start_idx + 3
    /\ positions[dec.start_idx + 1] # positions[dec.start_idx + 2]
    /\ positions[dec.start_idx + 3] # positions[dec.start_idx + 1]
    /\ positions[dec.start_idx + 3] # positions[dec.start_idx + 2]

\* run as the iteration that starts with the locals d has it after the flag
\* (and, when the flag is set, the five bits of run) were read.
IterRun(fr, d) ==
    Bind(DecodeCoord(fr.payload, d.st, CalcSizeInt(fr.minint, fr.maxint)), LAMBDA c0 :
         DecodeFlag(fr.payload, c0.st, d.run).run)

\* The run of the iteration reaches beyond the positions buffer (the test of
\* reader.rs line 107, n being 3 * the number of atoms of the buffer).
RunBeyondBuffer(fr, d, pos) ==
    \E run \in {IterRun(fr, d)} : run > 0 /\ d.write_idx * 3 + run > 3 * Len(pos)

----------------------------------------------------------------------------
(* Further claims about XTCReader, checked under SpecRd.                   *)

\* A whole frame header starts at pos and its magic is not 1995, its natoms
\* is negative or its two natoms fields differ.
BadHeader(file, pos) ==
    /\ Len(file) - pos >= 14
    /\ \/ file[pos + 1] # MAGIC
       \/ file[pos + 2] < 0
       \/ file[pos + 2] # file[pos + 14]

\* C15: a read_frame call that meets such a header fails with an error
\* returned to its caller: it neither delivers a frame nor aborts.
C15_BadHeaderIsError ==
    (rcalls > 0 /\ BadHeader(rfile, rstart)) => rres \notin {"ok", "panic"}

\* What a loop over read_frame makes of a call's outcome (benches/bench.rs
\* lines 29-37; tests/home.rs lines 14-16 ends its pass on any Err).
BulkVerdict(res) ==
    CASE res = "ok" -> "continue"
      [] res = "eof" -> "end"
      [] OTHER -> "fail"

\* C17: a bulk read takes UnexpectedEof for the normal end of the trajectory
\* only when the failing call started at the start of a header, at the end
\* of the file; the end of the file inside a frame is told apart from it.
C17_EofOnlyAtHeaderStart ==
    (rcalls > 0 /\ BulkVerdict(rres) = "end") => rstart >= Len(rfile)

----------------------------------------------------------------------------
(* Further claims about the byte-fetch buffers, checked under SpecBuf.     *)

\* C16: the decode of a frame terminates: while Buffer::new or a fetch is
\* inside the loop of read_to_include, the next read brings the loop closer
\* to its end (it changes the state), also when the payload length is zero
\* or larger than what the file holds; there is no state in which the loop
\* can only repeat itself.
C16_ReadsProgress ==
    bpc \in {"new_read", "fetch_read"} => ENABLED <<BufRead>>_vars


\* C23: a payload larger than MIN_BUFFERED_SIZE is not read by new(), and
\* every read request made for a fetch asks for min(size - idx, BLOCK_SIZE)
\* bytes.
C23_ReadsByBlock ==
    BufSize > MIN_BUFFERED_SIZE =>
        /\ bpc # "new_read"
        /\ (bpc = "fetch_read" /\ bidx <= btarget) =>
               BufRequest = Min(BufSize - bidx, BLOCK_SIZE)

\* C25: tell() never exceeds the payload length declared on the wire, for
\* fetches at indices below the padded length.
C25_TellWithinPayload ==
    /\ bpc \in {"ready", "finished"} => BufTell <= fcount
    /\ upc \in {"ready", "finished"} => UnTell <= fcount

\* The fetch that has just returned index's byte from Buffer.
FetchReturned(index) ==
    \/ Fetch(index) /\ ~BufNeedsRead(index)
    \/ BufRead /\ bpc = "fetch_read" /\ bpc' = "ready" /\ btarget = index

\* C28: whatever the scratch held before, a fetch that returns gives the
\* byte the reader delivered at that index of the payload, and leaves
\* head < idx <= size.
C28_FetchIsFresh ==
    [][\A index \in 0..(MaxCount + 3) :
          FetchReturned(index) =>
              /\ bret' = fdata[index + 1]
              /\ bhead' < bidx'
              /\ bidx' <= BufSize]_vars

\* A scratch with bytes of an earlier frame, reused for a payload read on
\* demand: a byte beyond the first block was fetched, and an earlier one
\* fetched again without a read.
C28_Witness ==
    /\ scratch0 # <<>>
    /\ bpc = "ready"
    /\ BufSize > MIN_BUFFERED_SIZE
    /\ bhead >= BLOCK_SIZE
    /\ bret = fdata[1]
    /\ bidx < BufSize

----------------------------------------------------------------------------
(* Further claims about the drivers, checked under SpecDrv.                *)

----------------------------------------------------------------------------
(* Claims about the decoder's indices and its small-size state, checked    *)
(* under SpecDec.                                                          *)

\* C26: at the head of every iteration of the main loop
\* write_idx <= read_idx < natoms, so the position slot taken there exists
\* and the loop head never panics for want of one.
C26_LoopHeadSlotExists ==
    /\ (dstatus = "running" /\ dec.read_idx < Len(positions)) =>
           /\ dec.write_idx <= dec.read_idx
           /\ NthSlot(Len(positions), dec.write_idx).some
    /\ dstatus = "panic" => dcause # "slot"

\* The head of a later iteration under a mask that left atoms out: fewer
\* positions written than atoms read, after a run.
C26_Witness ==
    /\ dstatus = "running"
    /\ dsel.tag = "Mask"
    /\ dec.run > 0
    /\ dec.read_idx < Len(positions)
    /\ 0 < dec.write_idx
    /\ dec.write_idx < dec.read_idx

\* C27: wherever the decoder uses MAGICINTS[smallidx], MAGICINTS[smallidx - 1]
\* or a small triplet of that size, FIRSTIDX <= smallidx <= 72 and the entry
\* is not zero, and no adaptation takes smallidx out of that range.
C27_SmallidxValid ==
    /\ dstatus = "running" =>
           /\ FIRSTIDX <= dec.smallidx
           /\ dec.smallidx < Len(MAGICINTS)
           /\ MagicInt(dec.smallidx) # 0
    /\ dstatus = "panic" => dcause # "magicint"

\* C30: at the head of every iteration smallnum = MAGICINTS[smallidx] / 2,
\* sizesmall = [MAGICINTS[smallidx]; 3] and, when smallidx > FIRSTIDX,
\* smaller = MAGICINTS[smallidx - 1] / 2.
C30_SmallStateTracksSmallidx ==
    dstatus = "running" =>
        /\ dec.smallnum = MagicInt(dec.smallidx) \div 2
        /\ dec.sizesmall = Fill3(MagicInt(dec.smallidx))
        /\ dec.smallidx > FIRSTIDX =>
               dec.smaller = MagicInt(dec.smallidx - 1) \div 2

\* The head of an iteration after an upward adaptation that left smallidx
\* above FIRSTIDX + 1.
C30_Witness ==
    /\ dstatus = "running"
    /\ dec.read_idx > 0
    /\ dec.read_idx < Len(positions)
    /\ dec.smallidx > xframe.smallidx
    /\ dec.smallidx > FIRSTIDX + 1

----------------------------------------------------------------------------
(* Claims about the bit reader, checked under SpecBits.                    *)

\* Bit k of the stream, the most significant bit of each byte first.
BitAt(buf, k) == (buf[(k \div 8) + 1] \div Pow2(7 - (k % 8))) % 2

\* The unsigned value of the n bits from bit start on, first bit highest, as
\* a u32.
NextBitsValue(buf, start, n) ==
    [i \in 1..32 |-> IF i <= n THEN BitAt(buf, start + n - i) ELSE 0]

\* C22: decodebits(n), for 0 <= n <= 32 and any cursor, returns the value of
\* the next n bits of the stream, first bit highest, and its 32-bit
\* arithmetic neither overflows nor aborts; each call starts at the bit the
\* one before ended at.
C22_ReadBitsExact ==
    /\ bitstatus # "panic"
    /\ lastread.kind = "bits" =>
           lastread.num = NextBitsValue(bitbuf, lastread.start, lastread.nbits)

\* C29: after any calls on a fresh DecodeState, 8 * count - lastbits is the
\* number of bits asked for, 0 <= lastbits <= 7, and count is that number
\* of bits in whole bytes, rounded up.
C29_CursorCountsBits ==
    bitstatus = "ready" =>
        /\ 8 * bitstate.count - bitstate.lastbits = bitsread
        /\ 0 <= bitstate.lastbits
        /\ bitstate.lastbits <= 7
        /\ bitstate.count = (bitsread + 7) \div 8

\* A call of eight bits or more that began within a byte and ended within
\* another, after an earlier call.
C29_Witness ==
    /\ bitstatus = "ready"
    /\ lastread.kind = "bits"
    /\ lastread.nbits >= 8
    /\ lastread.start % 8 # 0
    /\ bitstate.lastbits > 0

\* C21: in every width tier (nbits <= 32, <= 64, above) decodeints returns
\* the triple (x, y, z) whose packed value x * sy * sz + y * sz + z the
\* stream holds, with 0 <= y < sy and 0 <= z < sz and all three components
\* set, the byte-array path giving what the integer paths give.
C21_TripletUnpacked ==
    /\ bitstatus = "panic" => planted = NoPlant
    /\ lastread.kind = "ints" => lastread.nums = planted.nums
====
